---- MODULE Spec2Model ----
(***************************************************************************)
(* A model of the download orchestration core of yt-dlg:                   *)
(*   downloadmanager.py  DownloadItem, DownloadList, DownloadManager,      *)
(*                       Worker                                            *)
(*   downloaders.py      YoutubeDLDownloader (download / stop)             *)
(*   mainframe.py        the consumer handlers that call into the core     *)
(*                                                                         *)
(* Three specifications share the definitions below:                       *)
(*   SpecQueue   the DownloadList / DownloadItem operations, called one    *)
(*               after the other                                           *)
(*   SpecRunner  one YoutubeDLDownloader: a thread in download() and a     *)
(*               thread calling stop()                                     *)
(*   Spec        one session: the DownloadManager thread, its Worker       *)
(*               threads and the consumer (GUI) thread                     *)
(***************************************************************************)
EXTENDS Integers, Sequences, FiniteSets, TLC

\* ------------------------------------------------------------------ bounds

\* Number of distinct job identities (url + options) the consumer can submit.
MaxJobs == 2

\* Largest value of the "workers_number" option (the size of the pool).
MaxWorkers == 2

\* Number of actions the user takes in one session (add, delete, pause,
\* reload, move, stop).
MaxUserOps == 1

\* Capacity of the wx event queue for the records the Workers post.
MaxMsgs == 1

\* Number of download() calls made on the downloader of SpecRunner.
MaxRuns == 2

\* The longest order list the queue harness builds.
MaxLen == 3

\* The most file names the queue harness lets an item collect.
MaxFiles == 1

\* ------------------------------------------------------------- DownloadItem

Ids == 1..MaxJobs

\* Python's None where an object_id (or a worker) is expected.
NoId == 0

\* Python's None where a string is expected.
None == "None"

STAGES == <<"Queued", "Active", "Paused", "Completed", "Error">>

ACTIVE_STAGES == <<"Pre Processing", "Downloading", "Post Processing">>

COMPLETED_STAGES == <<"Finished", "Warning", "Already Downloaded">>

ERROR_STAGES == <<"Error", "Stopped", "Filesize Abort">>

Range(s) == {s[i] : i \in 1..Len(s)}

\* The url of the job with identity id (object_id = hash(url + str(options))).
Url(id) == "url" \o ToString(id)

\* `not value` of Python for the values a progress record carries.
Falsy(value) == value \in {None, ""}

\* self.default_values as reset() builds it: "status" is self.stage, which
\* reset() has just set to STAGES[0].
default_values(url) ==
    [filename |-> url, extension |-> "-", filesize |-> "-", percent |-> "0%",
     speed |-> "-", eta |-> "-", status |-> STAGES[1],
     playlist_size |-> "", playlist_index |-> ""]

\* DownloadItem.reset on an item that is not Active.
ResetFields(it) ==
    [it EXCEPT !.stage = STAGES[1],
               !.path = "",
               !.filenames = <<>>,
               !.extensions = <<>>,
               !.filesizes = <<>>,
               !.progress_stats = default_values(it.url),
               !.playlist_index_changed = FALSE]

\* reset() without its guard on the Active stage.
reset_unguarded(it) == [item |-> ResetFields(it), raised |-> None]

\* DownloadItem.reset: the item afterwards and the exception raised (or None).
reset(it) ==
    IF it.stage = STAGES[2]
    THEN [item |-> it, raised |-> "RuntimeError"]
    ELSE [item |-> ResetFields(it), raised |-> None]

\* The loop body of _on_reload without the stored savepath.
reload_item_reset(it) ==
    IF it.stage \in {"Paused", "Completed", "Error"}
    THEN reset(it).item
    ELSE it

\* MainFrame._on_reload, the body of its loops: reset() on an item that is
\* Paused, Completed or Error, and its old path written back.
reload_item(it) ==
    IF it.stage \in {"Paused", "Completed", "Error"}
    THEN [reset(it).item EXCEPT !.path = it.path]
    ELSE it

\* DownloadItem.__init__
DownloadItem(id) ==
    reset([url |-> Url(id), object_id |-> id, stage |-> STAGES[1], path |-> "",
           filenames |-> <<>>, extensions |-> <<>>, filesizes |-> <<>>,
           progress_stats |-> default_values(Url(id)),
           playlist_index_changed |-> FALSE]).item

\* The stage property setter (value is one of STAGES).
stage_setter(it, value) ==
    LET status == CASE value = "Active" -> ACTIVE_STAGES[1]
                    [] value = "Completed" -> COMPLETED_STAGES[1]
                    [] value = "Error" -> ERROR_STAGES[1]
                    [] OTHER -> value
    IN [it EXCEPT !.progress_stats.status = status, !.stage = value]

\* DownloadItem._set_stage
set_stage(it, status) ==
    LET s1 == IF status \in Range(ACTIVE_STAGES) THEN STAGES[2] ELSE it.stage
        s2 == IF status \in Range(COMPLETED_STAGES) THEN STAGES[4] ELSE s1
        s3 == IF status \in Range(ERROR_STAGES) THEN STAGES[5] ELSE s2
    IN [it EXCEPT !.stage = s3]

\* utils.to_bytes, for the size strings the model's records carry: whole
\* numbers of KiB written "<n>.00KiB" (KILO_SIZE ** 1).
to_bytes(string) ==
    CASE string = "1.00KiB" -> 1024
      [] string = "2.00KiB" -> 2048
      [] OTHER -> 0

\* utils.format_bytes, for whole numbers of KiB below one MiB.
format_bytes(bytes_) ==
    IF bytes_ < 1024
    THEN ToString(bytes_) \o ".00B"
    ELSE ToString(bytes_ \div 1024) \o ".00KiB"

\* str.lstrip("~")
lstrip_tilde(string) ==
    CASE string = "~1.00KiB" -> "1.00KiB"
      [] string = "~2.00KiB" -> "2.00KiB"
      [] OTHER -> string

PSKeys == DOMAIN default_values("")

Has(d, key) == key \in DOMAIN d

\* DownloadItem.update_stats(stats_dict); d is a function from the keys
\* present in the dictionary to their values.
update_stats(it, d) ==
    LET dv == default_values(it.url)
        ps1 == [k \in PSKeys |->
                  IF Has(d, k)
                  THEN (IF Falsy(d[k]) THEN dv[k] ELSE d[k])
                  ELSE it.progress_stats[k]]
        pic1 == IF Has(d, "playlist_index") THEN TRUE
                ELSE it.playlist_index_changed
        clear == Has(d, "filename") /\ pic1
        pic2 == IF clear THEN FALSE ELSE pic1
        fn0 == IF clear THEN <<>> ELSE it.filenames
        ex0 == IF clear THEN <<>> ELSE it.extensions
        fs0 == IF clear THEN <<>> ELSE it.filesizes
        fn1 == IF Has(d, "filename") THEN Append(fn0, d["filename"]) ELSE fn0
        ex1 == IF Has(d, "extension") THEN Append(ex0, d["extension"]) ELSE ex0
        path1 == IF Has(d, "path") THEN d["path"] ELSE it.path
        fs1 == IF /\ Has(d, "filesize")
                  /\ d["percent"] = "100%"
                  /\ Len(fs0) < Len(fn1)
               THEN Append(fs0, to_bytes(lstrip_tilde(d["filesize"])))
               ELSE fs0
        post == /\ Has(d, "status")
                /\ d["status"] = ACTIVE_STAGES[3]
                /\ Len(fs1) = 2
        fs2 == IF post THEN Append(fs1, fs1[1] + fs1[2]) ELSE fs1
        ps2 == IF post
               THEN [ps1 EXCEPT !.filesize = format_bytes(fs1[1] + fs1[2])]
               ELSE ps1
        it1 == [it EXCEPT !.progress_stats = ps2,
                          !.playlist_index_changed = pic2,
                          !.filenames = fn1,
                          !.extensions = ex1,
                          !.filesizes = fs2,
                          !.path = path1]
    IN IF Has(d, "status") THEN set_stage(it1, d["status"]) ELSE it1

\* ------------------------------------------------------------- DownloadList
\* A list is the pair of _items_list (the order) and _items_dict (the map).

\* list.remove(x): drops the first occurrence of x.
ListRemove(list, x) ==
    LET i == CHOOSE k \in 1..Len(list) :
                 list[k] = x /\ \A j \in 1..(k - 1) : list[j] # x
    IN SubSeq(list, 1, i - 1) \o SubSeq(list, i + 1, Len(list))

\* del dict[key]
DictDel(dict, key) == [k \in (DOMAIN dict) \ {key} |-> dict[k]]

\* dict[key] = value
DictSet(dict, key, value) ==
    [k \in (DOMAIN dict) \cup {key} |-> IF k = key THEN value ELSE dict[k]]

\* list.index(x): the zero based position of the first occurrence of x.
ListIndex(list, x) ==
    (CHOOSE k \in 1..Len(list) :
        list[k] = x /\ \A j \in 1..(k - 1) : list[j] # x) - 1

\* DownloadList.insert
insert(list, dict, it) ==
    [list |-> Append(list, it.object_id),
     dict |-> DictSet(dict, it.object_id, it),
     ret |-> None]

\* remove() without the test of the stage.
remove_any_stage(list, dict, object_id) ==
    IF object_id \notin DOMAIN dict
    THEN [list |-> list, dict |-> dict, ret |-> "KeyError"]
    ELSE [list |-> ListRemove(list, object_id),
          dict |-> DictDel(dict, object_id), ret |-> "True"]

\* remove() that deletes the item from the map and keeps its entry in the
\* order list.
remove_keep_entry(list, dict, object_id) ==
    IF object_id \notin DOMAIN dict
    THEN [list |-> list, dict |-> dict, ret |-> "KeyError"]
    ELSE IF dict[object_id].stage # "Active"
    THEN [list |-> list, dict |-> DictDel(dict, object_id), ret |-> "True"]
    ELSE [list |-> list, dict |-> dict, ret |-> "False"]

\* DownloadList.remove: the list afterwards and the value returned (or the
\* exception raised by self._items_dict[object_id]).
remove(list, dict, object_id) ==
    IF object_id \notin DOMAIN dict
    THEN [list |-> list, dict |-> dict, ret |-> "KeyError"]
    ELSE IF dict[object_id].stage # "Active"
    THEN [list |-> ListRemove(list, object_id),
          dict |-> DictDel(dict, object_id), ret |-> "True"]
    ELSE [list |-> list, dict |-> dict, ret |-> "False"]

\* What fetch_next yields when self._items_dict[object_id] raises KeyError.
KeyErrorId == -1

\* fetch_next that yields the last Queued item of the list.
fetch_next_last(list, dict) ==
    LET queued == {k \in 1..Len(list) :
                     list[k] \in DOMAIN dict /\ dict[list[k]].stage = "Queued"}
    IN IF queued = {} THEN NoId
       ELSE list[CHOOSE i \in queued : \A j \in queued : j <= i]

\* fetch_next that also yields a Paused item.
fetch_next_paused(list, dict) ==
    LET found == {k \in 1..Len(list) :
                    /\ list[k] \in DOMAIN dict
                    /\ dict[list[k]].stage \in {"Queued", "Paused"}}
    IN IF found = {} THEN NoId
       ELSE list[CHOOSE i \in found : \A j \in found : i <= j]

\* DownloadList.fetch_next: the object_id of the first Queued item, or NoId;
\* the walk ends at the first entry of the list that is Queued or that the
\* map does not hold.
fetch_next(list, dict) ==
    LET ends == {k \in 1..Len(list) :
                    \/ list[k] \notin DOMAIN dict
                    \/ dict[list[k]].stage = "Queued"}
    IN IF ends = {} THEN NoId
       ELSE LET k == CHOOSE i \in ends : \A j \in ends : i <= j
            IN IF list[k] \in DOMAIN dict THEN list[k] ELSE KeyErrorId

\* DownloadList.clear
clear == [list |-> <<>>, dict |-> <<>>, ret |-> None]

\* DownloadList._swap (index1, index2 zero based)
swap(list, index1, index2) ==
    [list EXCEPT ![index1 + 1] = list[index2 + 1],
                 ![index2 + 1] = list[index1 + 1]]

\* DownloadList.move_up
move_up(list, object_id) ==
    IF object_id \notin Range(list)
    THEN [list |-> list, ret |-> "ValueError"]
    ELSE LET index == ListIndex(list, object_id)
         IN IF index > 0
            THEN [list |-> swap(list, index, index - 1), ret |-> "True"]
            ELSE [list |-> list, ret |-> "False"]

\* move_down() that wraps around: the last item changes places with the
\* first.
move_down_wrap(list, object_id) ==
    IF object_id \notin Range(list)
    THEN [list |-> list, ret |-> "ValueError"]
    ELSE LET index == ListIndex(list, object_id)
         IN IF index < Len(list) - 1
            THEN [list |-> swap(list, index, index + 1), ret |-> "True"]
            ELSE [list |-> swap(list, index, 0), ret |-> "True"]

\* DownloadList.move_down
move_down(list, object_id) ==
    IF object_id \notin Range(list)
    THEN [list |-> list, ret |-> "ValueError"]
    ELSE LET index == ListIndex(list, object_id)
         IN IF index < Len(list) - 1
            THEN [list |-> swap(list, index, index + 1), ret |-> "True"]
            ELSE [list |-> list, ret |-> "False"]

\* DownloadList.has_item
has_item(list, object_id) == object_id \in Range(list)

\* DownloadList.change_stage (new_stage is one of STAGES)
change_stage(dict, object_id, new_stage) ==
    IF object_id \notin DOMAIN dict
    THEN [dict |-> dict, ret |-> "KeyError"]
    ELSE [dict |-> [dict EXCEPT ![object_id] = stage_setter(@, new_stage)],
          ret |-> None]

\* The value is an exception the operation raised.
IsException(value) == value \in {"KeyError", "ValueError", "RuntimeError"}

\* ------------------------------------------------------------- Line Parser
\* A line of stdout is the sequence of its whitespace separated tokens (and,
\* where a specification has them, of the whitespace " " around them).

\* The lines the subprocess writes in this model.
LineDownloading == <<"[download]", "45.0%", "of", "1.00KiB", "at", "1KiB/s", "ETA", "00:01">>

LineAlready == <<"[download]", "dl/a.mp4", "has", "already", "been", "downloaded">>

LineAbort == <<"[download]", "File", "is", "larger", "than", "max-filesize", "Aborting.">>

LinePreProcessing == <<"[youtube]", "abc:", "Downloading", "webpage">>

\* str.split(): the tokens of the line; the whitespace between them is gone.
split(line) == SelectSeq(line, LAMBDA tok : tok # " ")

\* " ".join(tokens)
RECURSIVE join(_)
join(tokens) ==
    IF tokens = <<>> THEN ""
    ELSE IF Len(tokens) = 1 THEN tokens[1]
    ELSE tokens[1] \o " " \o join(Tail(tokens))

\* list[i] of Python, i counted from zero, or from the end when negative.
InRange(list, i) == IF i >= 0 THEN i < Len(list) ELSE -i <= Len(list)

At(list, i) == IF i >= 0 THEN list[i + 1] ELSE list[Len(list) + i + 1]

\* list[i:] and list[i:j] of Python for 0 <= i and j < 0: a slice never fails.
SliceFrom(list, i) == SubSeq(list, i + 1, Len(list))

Slice(list, i, j) == SubSeq(list, i + 1, Len(list) + j)

\* The tokens that have a "/" in them: the text before the last one and the
\* text after it.
SlashTokens == {"dl/a.mp4", "1KiB/s"}

SlashSplit(tok) ==
    CASE tok = "dl/a.mp4" -> [parent |-> "dl", name |-> "a.mp4"]
      [] tok = "1KiB/s" -> [parent |-> "1KiB", name |-> "s"]

\* The tokens that have a "." in them: the text before the last one, and the
\* text from it on.
DotTokens == {"a.mp4", "45.0%", "1.00KiB", "10.00MiB", "Aborting."}

DotSplit(tok) ==
    CASE tok = "a.mp4" -> [stem |-> "a", suffix |-> ".mp4"]
      [] tok = "45.0%" -> [stem |-> "45", suffix |-> ".0%"]
      [] tok = "1.00KiB" -> [stem |-> "1", suffix |-> ".00KiB"]
      [] tok = "10.00MiB" -> [stem |-> "10", suffix |-> ".00MiB"]
      [] tok = "Aborting." -> [stem |-> "Aborting", suffix |-> "."]

\* The tokens in which the text test is found ("%" in token, token[0] == "[").
PercentTokens == {"45.0%", "100%"}

BracketTokens == {"[download]", "[hlsnative]", "[ffmpeg]", "[debug]",
                  "[youtube]"}

\* The element of a set of one element.  The({e : x \in {v}}) is e with v
\* for x, and v is computed once however often e names x.
The(set) == CHOOSE value \in set : TRUE

\* The index of the last token of the list that is in the set, or zero.
LastIn(list, set) ==
    The({CHOOSE k \in 0..Len(tokens) :
             /\ k # 0 => tokens[k] \in set
             /\ \A m \in (k + 1)..Len(tokens) : tokens[m] \notin set
         : tokens \in {list}})

\* Path(...).stem and .suffix of the last part of the path: suffix is empty
\* unless the last dot has text on both sides.
stem_suffix(name) ==
    The({LET dotted == /\ d # 0
                       /\ ~(d = 1 /\ DotSplit(name[d]).stem = "")
                       /\ ~(d = Len(name) /\ DotSplit(name[d]).suffix = ".")
         IN [filename |-> IF dotted
                          THEN join(Append(SubSeq(name, 1, d - 1),
                                           DotSplit(name[d]).stem))
                          ELSE join(name),
             extension |-> IF dotted
                           THEN join(<<DotSplit(name[d]).suffix>>
                                     \o SubSeq(name, d + 1, Len(name)))
                           ELSE ""]
         : d \in {LastIn(name, DotTokens)}})

\* Path(...).parent and the last part of the path, of the tokens and the
\* index s of the last one with a "/" in it.
parent_name(tokens, s) ==
    [parent |-> IF s = 0 THEN <<>>
                ELSE Append(SubSeq(tokens, 1, s - 1),
                            SlashSplit(tokens[s]).parent),
     name |-> IF s = 0 THEN tokens
              ELSE <<SlashSplit(tokens[s]).name>>
                   \o SubSeq(tokens, s + 1, Len(tokens))]

\* extract_filename: Path(input_data).parent, .stem and .suffix, where
\* input_data is the text of the tokens joined by single spaces (no token
\* here has a quote to strip).
extract_filename(input_data) ==
    The({[path |-> join(parts.parent),
          filename |-> stem_suffix(parts.name).filename,
          extension |-> stem_suffix(parts.name).extension]
         : parts \in {The({parent_name(tokens, LastIn(tokens, SlashTokens))
                           : tokens \in {input_data}})}})

\* The keys path, filename and extension as extract_data stores them.
FilenameKeys(input_data) ==
    The({("path" :> f.path) @@ ("filename" :> f.filename)
         @@ ("extension" :> f.extension)
         : f \in {extract_filename(input_data)}})

\* An exception, as the value of the call that raised it.
Raise(exception) == ("raised" :> exception)

Raised(data) == "raised" \in DOMAIN data

\* float(token), for the tokens that are numbers.
NumberTokens == {"0", "2", "4"}

float(tok) == CASE tok = "0" -> 0 [] tok = "2" -> 2 [] tok = "4" -> 4

\* f"{current_segment / segment_no * 100:.1f}%"
hls_percent(current_segment, segment_no) ==
    LET tenths == (2000 * current_segment + segment_no) \div (2 * segment_no)
    IN ToString(tenths \div 10) \o "." \o ToString(tenths % 10) \o "%"

\* extract_data, the "[download]" branch
extract_download(stdout_list) ==
    LET n == Len(stdout_list)
        second == stdout_list[2]
        percent == second \in PercentTokens
        playlist == second = "Downloading" /\ stdout_list[3] = "video"
        merged == At(stdout_list, -3) = "downloaded"
                  /\ At(stdout_list, -1) = "merged"
        trimmed == IF merged THEN SubSeq(stdout_list, 1, n - 2)
                   ELSE stdout_list
    IN IF n < 2 THEN Raise("IndexError")
       ELSE IF percent /\ ~InRange(stdout_list,
                                   IF second = "100%" THEN 3 ELSE 7)
       THEN Raise("IndexError")
       ELSE IF second = "Downloading" /\ ~InRange(stdout_list, 2)
       THEN Raise("IndexError")
       ELSE IF playlist /\ ~InRange(stdout_list, 5)
       THEN Raise("IndexError")
       ELSE IF ~InRange(stdout_list, -3) THEN Raise("IndexError")
       ELSE (IF At(trimmed, -1) = "Aborting."
             THEN ("status" :> "Filesize Abort") ELSE <<>>)
            @@ (IF At(trimmed, -1) = "downloaded"
                THEN ("status" :> "Already Downloaded")
                     @@ FilenameKeys(Slice(trimmed, 1, -4))
                ELSE <<>>)
            @@ (IF merged THEN ("percent" :> "100%") ELSE <<>>)
            @@ (IF playlist
                THEN ("playlist_index" :> stdout_list[4])
                     @@ ("playlist_size" :> stdout_list[6])
                ELSE <<>>)
            @@ (IF percent /\ second = "100%"
                THEN ("speed" :> "") @@ ("eta" :> "")
                     @@ ("percent" :> "100%")
                     @@ ("filesize" :> stdout_list[4])
                ELSE IF percent
                THEN ("percent" :> second) @@ ("filesize" :> stdout_list[4])
                     @@ ("speed" :> stdout_list[6])
                     @@ ("eta" :> stdout_list[8])
                ELSE <<>>)
            @@ (IF second = "Destination:"
                THEN FilenameKeys(SliceFrom(stdout_list, 2)) ELSE <<>>)
            @@ ("status" :> "Downloading")

\* extract_data, the "[hlsnative]" branch
extract_hlsnative(stdout_list) ==
    IF Len(stdout_list) # 7 THEN ("status" :> "Downloading")
    ELSE IF stdout_list[7] \notin NumberTokens
            \/ stdout_list[5] \notin NumberTokens
    THEN Raise("ValueError")
    ELSE IF float(stdout_list[7]) = 0 THEN Raise("ZeroDivisionError")
    ELSE ("percent" :> hls_percent(float(stdout_list[5]),
                                   float(stdout_list[7])))
         @@ ("status" :> "Downloading")

\* extract_data, the "[ffmpeg]" branch: the three tests follow one another,
\* and a later one overwrites the keys of an earlier one.
extract_ffmpeg(stdout_list) ==
    IF Len(stdout_list) < 2 THEN Raise("IndexError")
    ELSE (IF stdout_list[2] = "Converting"
          THEN FilenameKeys(SliceFrom(stdout_list, 8)) ELSE <<>>)
         @@ (IF stdout_list[2] = "Destination:"
             THEN FilenameKeys(SliceFrom(stdout_list, 2)) ELSE <<>>)
         @@ (IF stdout_list[2] = "Merging"
             THEN FilenameKeys(SliceFrom(stdout_list, 4)) ELSE <<>>)
         @@ ("status" :> "Post Processing")

\* extract_data: the record, or the exception it raises.  A line is the
\* sequence of its tokens and of the whitespace (" ") around them; every
\* "\r" is whitespace to split(), so that lstrip("\r") finds none.
extract_data(stdout) ==
    LET stdout_list == split(stdout)
    IN IF stdout = <<>> THEN <<>>
       ELSE IF stdout_list = <<>> THEN Raise("IndexError")
       ELSE IF stdout_list[1] = "[download]"
       THEN extract_download(stdout_list)
       ELSE IF stdout_list[1] = "[hlsnative]"
       THEN extract_hlsnative(stdout_list)
       ELSE IF stdout_list[1] = "[ffmpeg]" THEN extract_ffmpeg(stdout_list)
       ELSE IF stdout_list[1] \in BracketTokens /\ stdout_list[1] # "[debug]"
       THEN ("status" :> "Pre Processing")
       ELSE <<>>

\* ------------------------------------------------------- YoutubeDLDownloader

OK == 0

WARNING == 1

ERROR == 2

FILESIZE_ABORT == 3

ALREADY == 4

STOPPED == 5

\* The returncode of a subprocess killed by SIGKILL (os.killpg).
SIGKILLED == -9

\* ret_code of Worker.run before the first download() has returned.
NoCode == -1

Max(a, b) == IF a >= b THEN a ELSE b

\* YoutubeDLDownloader._is_warning, on the first colon delimited token.
is_warning(stderr) == stderr \in {"WARNING", "ERROR"}

\* The code _extract_info raises for a record, or NoCode.
extract_info_code(data) ==
    IF ~Has(data, "status") THEN NoCode
    ELSE IF data["status"] = "Already Downloaded" THEN ALREADY
    ELSE IF data["status"] = "Filesize Abort" THEN FILESIZE_ABORT
    ELSE NoCode

\* _extract_info that leaves the record as it is.
extract_info_kept(data) == data

\* The record _extract_info leaves: the two terminal statuses are trashed.
extract_info_data(data) ==
    IF extract_info_code(data) # NoCode
    THEN [data EXCEPT !["status"] = None]
    ELSE data

\* The status of the record _last_data_hook builds from the return code.
last_status(code) ==
    CASE code = OK -> "Finished"
      [] code = ERROR -> "Error"
      [] code = WARNING -> "Warning"
      [] code = STOPPED -> "Stopped"
      [] code = ALREADY -> "Already Downloaded"
      [] OTHER -> "Filesize Abort"

\* The record _last_data_hook hands to the data hook.
last_data(code) ==
    ("status" :> last_status(code)) @@ ("speed" :> "") @@ ("eta" :> "")

\* -------------------------------------------------------------------- state

VARIABLES
    \* DownloadList
    items_list,       \* _items_list
    items_dict,       \* _items_dict: object_id -> DownloadItem
    sync_lock,        \* _SYNC_LOCK: "free", or the thread that holds it
    call,             \* the DownloadList / DownloadItem operation last called
    ret,              \* what it returned (or the exception it raised)
    lock_count,       \* _SYNC_LOCK: its recursion level, in SpecLock
    t_pc,             \* where each thread is in the synchronized wrapper
    \* Line Parser
    p_stdout,         \* stdout, the argument of extract_data
    p_data,           \* what extract_data returned (or the exception raised)
    \* Worker, the reply of the consumer
    w_wait_for_reply, \* Worker._wait_for_reply
    \* configuration
    nworkers,         \* opt_manager.options["workers_number"]
    is_windows,       \* utils.IS_WINDOWS
    \* Worker (one entry per Worker of the pool)
    w_pc,             \* where the Worker thread is in run()
    w_running,        \* Worker._running
    w_data,           \* Worker._data: the keys "url" and "index"
    w_options,        \* Worker._options
    w_successful,     \* Worker._successful
    w_ret_code,       \* ret_code of Worker.run
    \* YoutubeDLDownloader (one per Worker)
    return_code,      \* _return_code
    proc,             \* _proc: is there one, is it alive, its returncode
    cmd,              \* the url and options download() was called with
    stderr_pipe,      \* stderr lines written and not yet read by PipeReader
    stderr_queue,     \* _stderr_queue
    d_code,           \* code, inside _set_returncode, between test and store
    d_cont,           \* where download() goes on after that store
    d_data,           \* the record of the line being processed
    last_hook,        \* the record last handed to data_hook
    killed,           \* stop() has killed the subprocess of the current run
    seen_max,         \* the highest code given to _set_returncode in the run
    \* DownloadManager
    m_pc,             \* where the DownloadManager thread is in run()
    m_running,        \* DownloadManager._running
    m_item,           \* item of run() (its object_id)
    m_worker,         \* worker of run(), then of its closing loop
    m_successful,     \* DownloadManager._successful
    signals,          \* the signals sent with _talk_to_gui, in order
    closed_workers,   \* the Workers whose close() has returned
    loop_exit,        \* how run() left its loop: "", "break" or "stop"
    \* the consumer (MainFrame, the wx main loop)
    gui_queue,        \* records posted with wx.CallAfter by the Workers
    gui_pc,           \* "idle", or inside stop_downloads()
    gui_dm,           \* MainFrame.download_manager is not None
    user_ops,         \* number of user actions so far
    \* what has happened in the session
    started,          \* the object_ids given to Worker.download, in order
    disturbed,        \* an item was moved, paused, resumed, removed or reset
    ever_queued,      \* some item has been Queued since the Manager started
    requeued,         \* the items the consumer has made Queued since the
                      \* last fetch_next of the Manager
    \* the caller of SpecRunner
    h_runs,           \* number of download() calls requested
    s_pc              \* where the thread calling stop() is

queue_vars == <<items_list, items_dict, sync_lock, call, ret>>

config_vars == <<nworkers, is_windows>>

lock_vars == <<lock_count, t_pc>>

parser_vars == <<p_stdout, p_data>>

reply_vars == <<w_wait_for_reply>>

worker_vars == <<w_pc, w_running, w_data, w_options, w_successful, w_ret_code>>

runner_vars == <<return_code, proc, cmd, stderr_pipe, stderr_queue, d_code,
                 d_cont, d_data, last_hook, killed, seen_max>>

manager_vars == <<m_pc, m_running, m_item, m_worker, m_successful, signals,
                  closed_workers, loop_exit>>

gui_vars == <<gui_queue, gui_pc, gui_dm, user_ops>>

history_vars == <<started, disturbed, ever_queued, requeued>>

harness_vars == <<h_runs, s_pc>>

vars == <<queue_vars, config_vars, lock_vars, parser_vars, reply_vars,
          worker_vars, runner_vars, manager_vars, gui_vars, history_vars,
          harness_vars>>

\* The threads that call the DownloadList.
Threads == {"manager", "gui"}

AllWorkers == 1..MaxWorkers

Pool == 1..nworkers

\* The option list of the job with identity id.
Options(id) == "options" \o ToString(id)

NoProc == [obj |-> FALSE, alive |-> FALSE, returncode |-> 0]

\* Worker.__init__ and YoutubeDLDownloader.__init__
InitWorkers ==
    /\ w_pc = [w \in AllWorkers |-> "poll"]
    /\ w_running = [w \in AllWorkers |-> TRUE]
    /\ w_data = [w \in AllWorkers |-> [url |-> None, index |-> NoId]]
    /\ w_options = [w \in AllWorkers |-> None]
    /\ w_successful = [w \in AllWorkers |-> 0]
    /\ w_ret_code = [w \in AllWorkers |-> NoCode]
    /\ w_wait_for_reply = [w \in AllWorkers |-> FALSE]
    /\ return_code = [w \in AllWorkers |-> OK]
    /\ proc = [w \in AllWorkers |-> NoProc]
    /\ cmd = [w \in AllWorkers |-> [url |-> None, options |-> None]]
    /\ stderr_pipe = [w \in AllWorkers |-> <<>>]
    /\ stderr_queue = [w \in AllWorkers |-> <<>>]
    /\ d_code = [w \in AllWorkers |-> OK]
    /\ d_cont = [w \in AllWorkers |-> ""]
    /\ d_data = [w \in AllWorkers |-> <<>>]
    /\ last_hook = [w \in AllWorkers |-> <<>>]
    /\ killed = [w \in AllWorkers |-> FALSE]
    /\ seen_max = [w \in AllWorkers |-> OK]

\* DownloadManager.__init__
InitManager ==
    /\ m_pc = "loop"
    /\ m_running = TRUE
    /\ m_item = NoId
    /\ m_worker = NoId
    /\ m_successful = 0
    /\ signals = <<>>
    /\ closed_workers = {}
    /\ loop_exit = ""

\* ---------------------------------------------- the subprocess of a download
\* What the external binary may do in a specification: the lines it writes
\* to stdout, how it ends (exit code, and the first colon delimited token of
\* each line it wrote to stderr), whether Popen succeeds, and whether a wx
\* application is there to post the records to.

RunnerEnv ==
    [lines |-> {LineDownloading, LineAlready, LineAbort},
     exits |-> {[code |-> 0, stderr |-> <<>>],
                [code |-> 1, stderr |-> <<>>],
                [code |-> SIGKILLED, stderr |-> <<>>],
                [code |-> 0, stderr |-> <<"WARNING">>]},
     spawns |-> {TRUE, FALSE},
     app |-> FALSE]

SessionEnv ==
    [lines |-> {LinePreProcessing},
     exits |-> {[code |-> 0, stderr |-> <<>>], [code |-> 1, stderr |-> <<>>]},
     spawns |-> {TRUE},
     app |-> TRUE]

\* ------------------------------------------------------------ Worker thread

\* download() has been entered and has not returned.
InRun(w) ==
    w_pc[w] \in {"dl_loop", "hook", "setrc", "dl_stderr", "dl_exit", "dl_last",
                 "dl_ret"}

\* Worker._data_hook -> Worker._talk_to_gui("send", data): the record is
\* tagged with self._data["index"] and posted with wx.CallAfter.
Hook(w, data, env) ==
    /\ last_hook' = [last_hook EXCEPT ![w] = data]
    /\ IF env.app
       THEN /\ Len(gui_queue) < MaxMsgs
            /\ gui_queue' = Append(gui_queue,
                                   data @@ ("index" :> w_data[w].index))
       ELSE UNCHANGED gui_queue

\* _set_returncode(code) up to its test: the store is the step WSetReturncode.
SetReturncodeTest(w, code, cont) ==
    /\ seen_max' = [seen_max EXCEPT ![w] = Max(@, code)]
    /\ IF code >= return_code[w]
       THEN /\ w_pc' = [w_pc EXCEPT ![w] = "setrc"]
            /\ d_code' = [d_code EXCEPT ![w] = code]
            /\ d_cont' = [d_cont EXCEPT ![w] = cont]
       ELSE /\ w_pc' = [w_pc EXCEPT ![w] = cont]
            /\ UNCHANGED <<d_code, d_cont>>

\* _set_returncode: self._return_code = code
WSetReturncode(w) ==
    /\ w_pc[w] = "setrc"
    /\ return_code' = [return_code EXCEPT ![w] = d_code[w]]
    /\ w_pc' = [w_pc EXCEPT ![w] = d_cont[w]]
    /\ d_code' = [d_code EXCEPT ![w] = OK]
    /\ d_cont' = [d_cont EXCEPT ![w] = ""]
    /\ UNCHANGED <<queue_vars, config_vars, lock_vars, parser_vars, reply_vars,
                   w_running, w_data, w_options, w_successful, w_ret_code,
                   proc, cmd, stderr_pipe, stderr_queue, d_data, last_hook,
                   killed, seen_max, manager_vars, gui_vars, history_vars,
                   harness_vars>>

\* Worker.run: while self._running: if self._data.get("url"): ...
WPoll(w) ==
    /\ w_pc[w] = "poll"
    /\ w_running[w]
    /\ w_data[w].url # None
    /\ w_pc' = [w_pc EXCEPT ![w] = "dl_start"]
    /\ UNCHANGED <<queue_vars, config_vars, lock_vars, parser_vars, reply_vars,
                   w_running, w_data, w_options, w_successful, w_ret_code,
                   runner_vars, manager_vars, gui_vars, history_vars,
                   harness_vars>>

\* Worker.run: the loop ends, self._downloader.close()
WExit(w) ==
    /\ w_pc[w] = "poll"
    /\ ~w_running[w]
    /\ w_pc' = [w_pc EXCEPT ![w] = "exited"]
    /\ UNCHANGED <<queue_vars, config_vars, lock_vars, parser_vars, reply_vars,
                   w_running, w_data, w_options, w_successful, w_ret_code,
                   runner_vars, manager_vars, gui_vars, history_vars,
                   harness_vars>>

\* download(self._data["url"], self._options) up to _create_process
WDownloadStart(w, env) ==
    /\ w_pc[w] = "dl_start"
    /\ cmd' = [cmd EXCEPT ![w] = [url |-> w_data[w].url,
                                  options |-> w_options[w]]]
    /\ return_code' = [return_code EXCEPT ![w] = OK]
    /\ seen_max' = [seen_max EXCEPT ![w] = OK]
    /\ killed' = [killed EXCEPT ![w] = FALSE]
    /\ \E ok \in env.spawns :
          IF ok
          THEN /\ proc' = [proc EXCEPT ![w] = [obj |-> TRUE, alive |-> TRUE,
                                               returncode |-> 0]]
               /\ stderr_pipe' = [stderr_pipe EXCEPT ![w] = <<>>]
          ELSE UNCHANGED <<proc, stderr_pipe>>
    /\ w_pc' = [w_pc EXCEPT ![w] = "dl_loop"]
    /\ UNCHANGED <<queue_vars, config_vars, lock_vars, parser_vars, reply_vars,
                   w_running, w_data, w_options, w_successful, w_ret_code,
                   stderr_queue, d_code, d_cont, d_data, last_hook,
                   manager_vars, gui_vars, history_vars, harness_vars>>

\* download(): one pass of the body of while self._proc_is_alive(): a line of
\* stdout is read and parsed, and the record is handed to the hook; a line
\* whose status sets a code goes through _set_returncode first, and the pass
\* resumes at self._hook_data(data_dict).  An exception of extract_data
\* leaves download() and Worker.run, and the thread ends.
WReadLine(w, env) ==
    /\ IF w_pc[w] = "hook"
       THEN /\ Hook(w, d_data[w], env)
            /\ d_data' = [d_data EXCEPT ![w] = <<>>]
            /\ w_pc' = [w_pc EXCEPT ![w] = "dl_loop"]
            /\ UNCHANGED <<d_code, d_cont, seen_max>>
       ELSE /\ w_pc[w] = "dl_loop"
            /\ proc[w].obj /\ proc[w].alive
            /\ \E stdout \in env.lines :
                \E data \in {extract_data(stdout)} :
                  LET code == extract_info_code(data)
                  IN IF Raised(data)
                     THEN /\ w_pc' = [w_pc EXCEPT ![w] = "crashed"]
                          /\ UNCHANGED <<d_code, d_cont, d_data, seen_max,
                                         last_hook, gui_queue>>
                     ELSE IF code # NoCode
                     THEN /\ SetReturncodeTest(w, code, "hook")
                          /\ d_data' = [d_data EXCEPT
                                           ![w] = extract_info_data(data)]
                          /\ UNCHANGED <<last_hook, gui_queue>>
                     ELSE /\ Hook(w, data, env)
                          /\ UNCHANGED <<w_pc, d_code, d_cont, d_data,
                                         seen_max>>
    /\ UNCHANGED <<queue_vars, config_vars, lock_vars, parser_vars, reply_vars,
                   w_running, w_data, w_options, w_successful, w_ret_code,
                   return_code, proc, cmd, stderr_pipe, stderr_queue, killed,
                   manager_vars, gui_pc, gui_dm, user_ops, history_vars,
                   harness_vars>>

\* The subprocess ends by itself, and download() sees it: poll() is not None.
WProcessExit(w, env) ==
    /\ w_pc[w] = "dl_loop"
    /\ proc[w].obj /\ proc[w].alive
    /\ \E e \in env.exits :
          /\ proc' = [proc EXCEPT ![w].alive = FALSE, ![w].returncode = e.code]
          /\ stderr_pipe' = [stderr_pipe EXCEPT ![w] = e.stderr]
    /\ w_pc' = [w_pc EXCEPT ![w] = "dl_stderr"]
    /\ UNCHANGED <<queue_vars, config_vars, lock_vars, parser_vars, reply_vars,
                   w_running, w_data, w_options, w_successful, w_ret_code,
                   return_code, cmd, stderr_queue, d_code, d_cont, d_data,
                   last_hook, killed, seen_max, manager_vars, gui_vars,
                   history_vars, harness_vars>>

\* download(): _proc_is_alive() is False (no process, or a killed one)
WLoopEnd(w) ==
    /\ w_pc[w] = "dl_loop"
    /\ ~(proc[w].obj /\ proc[w].alive)
    /\ w_pc' = [w_pc EXCEPT ![w] = "dl_stderr"]
    /\ UNCHANGED <<queue_vars, config_vars, lock_vars, parser_vars, reply_vars,
                   w_running, w_data, w_options, w_successful, w_ret_code,
                   runner_vars, manager_vars, gui_vars, history_vars,
                   harness_vars>>

\* download(): while not self._stderr_queue.empty(): ...
WReadStderr(w) ==
    /\ w_pc[w] = "dl_stderr"
    /\ IF stderr_queue[w] = <<>>
       THEN /\ w_pc' = [w_pc EXCEPT ![w] = "dl_exit"]
            /\ UNCHANGED <<stderr_queue, d_code, d_cont, seen_max>>
       ELSE /\ stderr_queue' = [stderr_queue EXCEPT ![w] = Tail(@)]
            /\ IF is_warning(Head(stderr_queue[w]))
               THEN SetReturncodeTest(w, WARNING, "dl_stderr")
               ELSE UNCHANGED <<w_pc, d_code, d_cont, seen_max>>
    /\ UNCHANGED <<queue_vars, config_vars, lock_vars, parser_vars, reply_vars,
                   w_running, w_data, w_options, w_successful, w_ret_code,
                   return_code, proc, cmd, stderr_pipe, d_data, last_hook,
                   killed, manager_vars, gui_vars, history_vars, harness_vars>>

\* download(): if self._proc and self._proc.returncode > 0: ...
WExitCode(w) ==
    /\ w_pc[w] = "dl_exit"
    /\ IF proc[w].obj /\ proc[w].returncode > 0
       THEN SetReturncodeTest(w, ERROR, "dl_last")
       ELSE /\ w_pc' = [w_pc EXCEPT ![w] = "dl_last"]
            /\ UNCHANGED <<d_code, d_cont, seen_max>>
    /\ UNCHANGED <<queue_vars, config_vars, lock_vars, parser_vars, reply_vars,
                   w_running, w_data, w_options, w_successful, w_ret_code,
                   return_code, proc, cmd, stderr_pipe, stderr_queue, d_data,
                   last_hook, killed, manager_vars, gui_vars, history_vars,
                   harness_vars>>

\* download(): self._last_data_hook()
WLastDataHook(w, env) ==
    /\ w_pc[w] = "dl_last"
    /\ Hook(w, last_data(return_code[w]), env)
    /\ w_pc' = [w_pc EXCEPT ![w] = "dl_ret"]
    /\ UNCHANGED <<queue_vars, config_vars, lock_vars, parser_vars, reply_vars,
                   w_running, w_data, w_options, w_successful, w_ret_code,
                   return_code, proc, cmd, stderr_pipe, stderr_queue, d_code,
                   d_cont, d_data, killed, seen_max, manager_vars, gui_pc,
                   gui_dm, user_ops, history_vars, harness_vars>>

\* Worker.run that counts the success and does not call self._reset().
WReturnNoReset(w) ==
    /\ w_pc[w] = "dl_ret"
    /\ w_ret_code' = [w_ret_code EXCEPT ![w] = return_code[w]]
    /\ w_successful' = [w_successful EXCEPT ![w] =
                          IF return_code[w] \in {OK, ALREADY, WARNING}
                          THEN @ + 1 ELSE @]
    /\ w_pc' = [w_pc EXCEPT ![w] = "poll"]
    /\ cmd' = [cmd EXCEPT ![w] = [url |-> None, options |-> None]]
    /\ UNCHANGED <<queue_vars, config_vars, lock_vars, parser_vars, reply_vars,
                   w_running, w_data, w_options, return_code, proc,
                   stderr_pipe, stderr_queue, d_code, d_cont, d_data,
                   last_hook, killed, seen_max, manager_vars, gui_vars,
                   history_vars, harness_vars>>

\* download(): return self._return_code (its local cmd is gone); then
\* Worker.run counts the success and calls self._reset()
WReturn(w) ==
    /\ w_pc[w] = "dl_ret"
    /\ w_ret_code' = [w_ret_code EXCEPT ![w] = return_code[w]]
    /\ w_successful' = [w_successful EXCEPT ![w] =
                          IF return_code[w] \in {OK, ALREADY, WARNING}
                          THEN @ + 1 ELSE @]
    /\ w_data' = [w_data EXCEPT ![w] = [url |-> None, index |-> NoId]]
    /\ w_pc' = [w_pc EXCEPT ![w] = "poll"]
    /\ cmd' = [cmd EXCEPT ![w] = [url |-> None, options |-> None]]
    /\ UNCHANGED <<queue_vars, config_vars, lock_vars, parser_vars, reply_vars,
                   w_running, w_options, return_code, proc, stderr_pipe,
                   stderr_queue, d_code, d_cont, d_data, last_hook, killed,
                   seen_max, manager_vars, gui_vars, history_vars,
                   harness_vars>>

\* PipeReader.run: the lines read from the pipe go to the queue.
PipeReaderRun(w) ==
    /\ stderr_pipe[w] # <<>>
    /\ stderr_queue' = [stderr_queue EXCEPT ![w] = @ \o stderr_pipe[w]]
    /\ stderr_pipe' = [stderr_pipe EXCEPT ![w] = <<>>]
    /\ UNCHANGED <<queue_vars, config_vars, lock_vars, parser_vars, reply_vars,
                   worker_vars, return_code, proc, cmd, d_code, d_cont, d_data,
                   last_hook, killed, seen_max, manager_vars, gui_vars,
                   history_vars, harness_vars>>

\* The steps of the Worker thread w.
WorkerStep(w, env) ==
    \/ WPoll(w)
    \/ WExit(w)
    \/ WDownloadStart(w, env)
    \/ WReadLine(w, env)
    \/ WProcessExit(w, env)
    \/ WLoopEnd(w)
    \/ WSetReturncode(w)
    \/ WReadStderr(w)
    \/ WExitCode(w)
    \/ WLastDataHook(w, env)
    \/ WReturn(w)

\* ------------------------------------------------ YoutubeDLDownloader.stop
\* stop() as the calling thread runs it: the test, the closing of the pipes
\* and the kill are one step; _set_returncode(STOPPED) is the next.

\* stop() up to the kill; the process is alive.
StopKill(w) ==
    /\ proc[w].obj /\ proc[w].alive
    /\ proc' = [proc EXCEPT ![w].alive = FALSE,
                            ![w].returncode = IF is_windows THEN 1
                                              ELSE SIGKILLED]
    /\ stderr_pipe' = [stderr_pipe EXCEPT ![w] = <<>>]
    /\ killed' = [killed EXCEPT ![w] = TRUE]

\* stop(): (on Windows) self._proc.returncode = 0, then
\* self._set_returncode(self.STOPPED)
StopSetReturncode(w) ==
    /\ proc' = IF is_windows THEN [proc EXCEPT ![w].returncode = 0] ELSE proc
    /\ return_code' = [return_code EXCEPT ![w] =
                          IF STOPPED >= @ THEN STOPPED ELSE @]
    /\ seen_max' = [seen_max EXCEPT ![w] =
                      IF InRun(w) THEN Max(@, STOPPED) ELSE @]

\* --------------------------------------------------------------- SpecRunner
\* One YoutubeDLDownloader, driven as Worker.run drives it, while another
\* thread calls stop() (Worker.stop_download) at any moment.

NoCall == [op |-> "", id |-> NoId]

\* No thread is inside the synchronized wrapper.
InitIdleLock ==
    /\ lock_count = 0
    /\ t_pc = [t \in Threads |-> "out"]

\* The value of p_data before extract_data is called.
NotCalled == ("extract_data" :> "not called")

InitIdleParser ==
    /\ p_stdout = <<>>
    /\ p_data = NotCalled

InitIdleQueue ==
    /\ items_list = <<>>
    /\ items_dict = <<>>
    /\ sync_lock = "free"
    /\ InitIdleLock
    /\ call = NoCall
    /\ ret = None

InitIdleGui ==
    /\ gui_queue = <<>>
    /\ gui_pc = "idle"
    /\ gui_dm = FALSE
    /\ user_ops = 0
    /\ started = <<>>
    /\ disturbed = FALSE
    /\ ever_queued = FALSE
    /\ requeued = {}

InitRunner ==
    /\ InitIdleQueue
    /\ InitIdleParser
    /\ InitIdleGui
    /\ InitWorkers
    /\ InitManager
    /\ nworkers = 1
    /\ is_windows \in BOOLEAN
    /\ h_runs = 0
    /\ s_pc = "idle"

\* Worker.download(url, options, object_id), called on an available Worker.
RunnerDownload ==
    /\ h_runs < MaxRuns
    /\ w_data[1].url = None
    /\ \E id \in Ids :
          /\ w_data' = [w_data EXCEPT ![1] = [url |-> Url(id), index |-> id]]
          /\ w_options' = [w_options EXCEPT ![1] = Options(id)]
    /\ h_runs' = h_runs + 1
    /\ UNCHANGED <<queue_vars, config_vars, lock_vars, parser_vars, reply_vars,
                   w_pc, w_running, w_successful, w_ret_code, runner_vars,
                   manager_vars, gui_vars, history_vars, s_pc>>

\* stop() finds the process alive, closes its pipes and kills it.
RunnerStopKill ==
    /\ s_pc = "idle"
    /\ StopKill(1)
    /\ s_pc' = "set"
    /\ UNCHANGED <<queue_vars, config_vars, lock_vars, parser_vars, reply_vars,
                   worker_vars, return_code, cmd, stderr_queue, d_code, d_cont,
                   d_data, last_hook, seen_max, manager_vars, gui_vars,
                   history_vars, h_runs>>

\* stop(): self._set_returncode(self.STOPPED)
RunnerStopSet ==
    /\ s_pc = "set"
    /\ StopSetReturncode(1)
    /\ s_pc' = "idle"
    /\ UNCHANGED <<queue_vars, config_vars, lock_vars, parser_vars, reply_vars,
                   worker_vars, cmd, stderr_pipe, stderr_queue, d_code, d_cont,
                   d_data, last_hook, killed, manager_vars, gui_vars,
                   history_vars, h_runs>>

NextRunner ==
    \/ RunnerDownload
    \/ RunnerStopKill
    \/ RunnerStopSet
    \/ PipeReaderRun(1)
    \/ WPoll(1)
    \/ WDownloadStart(1, RunnerEnv)
    \/ WReadLine(1, RunnerEnv)
    \/ WProcessExit(1, RunnerEnv)
    \/ WLoopEnd(1)
    \/ WSetReturncode(1)
    \/ WReadStderr(1)
    \/ WExitCode(1)
    \/ WLastDataHook(1, RunnerEnv)
    \/ WReturn(1)

SpecRunner == InitRunner /\ [][NextRunner]_vars

\* The download() call of the Worker has returned at least once and no call
\* is in progress.
Returned(w) == w_pc[w] = "poll" /\ w_ret_code[w] # NoCode

\* C4: within one download() run the outcome code never decreases, and the
\* code download() returns is the maximum of the codes given to
\* _set_returncode during that run.
C4_HighWaterMark ==
    [][/\ (InRun(1) /\ w_pc'[1] # "poll") => return_code'[1] >= return_code[1]
       /\ (w_pc[1] = "dl_ret" /\ w_pc'[1] = "poll")
             => w_ret_code'[1] = seen_max[1]]_vars

\* C5: a run whose subprocess stop() has killed returns STOPPED and its last
\* record has the status "Stopped".
C5_StopReadsBackStopped ==
    (Returned(1) /\ killed[1])
        => (w_ret_code[1] = STOPPED /\ last_hook[1]["status"] = "Stopped")

\* ---------------------------------------------------------------- SpecQueue
\* One DownloadList and its DownloadItems, driven by one thread that calls
\* the operations in any order with any identity.  call is the operation
\* called last and ret what it returned or raised.  An exception leaves the
\* synchronized wrapper without releasing the lock.

\* A lock that lets every thread in.
CanLockAny(thread) == TRUE

\* A thread may enter a synchronized operation: the lock is free or its own.
CanLock(thread) == sync_lock \in {"free", thread}

\* opt_manager.options["save_path"]
SavePath == "save"

\* The records update_stats is given by the harness: the record of a line,
\* the same record as _extract_info leaves it, and a last record.
QueueRecords ==
    {extract_data(LineAlready), extract_info_data(extract_data(LineAlready)),
     last_data(OK)}

\* The lock after a synchronized operation that returned or raised value.
LockAfter(value) == IF IsException(value) THEN "gui" ELSE sync_lock

InitQueue ==
    /\ InitIdleQueue
    /\ InitIdleParser
    /\ InitIdleGui
    /\ InitWorkers
    /\ InitManager
    /\ nworkers = 1
    /\ is_windows = FALSE
    /\ h_runs = 0
    /\ s_pc = "idle"

\* What every step of the harness leaves alone.
QueueFrame ==
    UNCHANGED <<config_vars, lock_vars, parser_vars, reply_vars, worker_vars,
                runner_vars, manager_vars, gui_vars, history_vars,
                harness_vars>>

\* download_list.insert(item), the item built as _on_add builds it
QInsert(id) ==
    /\ CanLock("gui")
    /\ Len(items_list) < MaxLen
    /\ LET r == insert(items_list, items_dict,
                       [DownloadItem(id) EXCEPT !.path = SavePath])
       IN /\ items_list' = r.list
          /\ items_dict' = r.dict
          /\ ret' = r.ret
    /\ call' = [op |-> "insert", id |-> id]
    /\ UNCHANGED sync_lock
    /\ QueueFrame

\* download_list.remove(object_id)
QRemove(id) ==
    /\ CanLock("gui")
    /\ LET r == remove(items_list, items_dict, id)
       IN /\ items_list' = r.list
          /\ items_dict' = r.dict
          /\ ret' = r.ret
          /\ sync_lock' = LockAfter(r.ret)
    /\ call' = [op |-> "remove", id |-> id]
    /\ QueueFrame

\* download_list.fetch_next()
QFetchNext ==
    /\ CanLock("gui")
    /\ LET item == fetch_next(items_list, items_dict)
       IN /\ ret' = IF item = KeyErrorId THEN "KeyError"
                    ELSE IF item = NoId THEN None
                    ELSE Url(item)
          /\ sync_lock' = IF item = KeyErrorId THEN "gui" ELSE sync_lock
    /\ call' = [op |-> "fetch_next", id |-> NoId]
    /\ UNCHANGED <<items_list, items_dict>>
    /\ QueueFrame

\* download_list.move_up(object_id)
QMoveUp(id) ==
    /\ CanLock("gui")
    /\ LET r == move_up(items_list, id)
       IN /\ items_list' = r.list
          /\ ret' = r.ret
          /\ sync_lock' = LockAfter(r.ret)
    /\ call' = [op |-> "move_up", id |-> id]
    /\ UNCHANGED items_dict
    /\ QueueFrame

\* download_list.move_down(object_id)
QMoveDown(id) ==
    /\ CanLock("gui")
    /\ LET r == move_down(items_list, id)
       IN /\ items_list' = r.list
          /\ ret' = r.ret
          /\ sync_lock' = LockAfter(r.ret)
    /\ call' = [op |-> "move_down", id |-> id]
    /\ UNCHANGED items_dict
    /\ QueueFrame

\* download_list.change_stage(object_id, new_stage)
QChangeStage(id, new_stage) ==
    /\ CanLock("gui")
    /\ LET r == change_stage(items_dict, id, new_stage)
       IN /\ items_dict' = r.dict
          /\ ret' = r.ret
          /\ sync_lock' = LockAfter(r.ret)
    /\ call' = [op |-> "change_stage", id |-> id]
    /\ UNCHANGED items_list
    /\ QueueFrame

\* download_list.clear()
QClear ==
    /\ CanLock("gui")
    /\ items_list' = clear.list
    /\ items_dict' = clear.dict
    /\ ret' = clear.ret
    /\ call' = [op |-> "clear", id |-> NoId]
    /\ UNCHANGED sync_lock
    /\ QueueFrame

\* item.reset(), on an item of the list (not a synchronized operation)
QReset(id) ==
    /\ id \in DOMAIN items_dict
    /\ LET r == reset(items_dict[id])
       IN /\ items_dict' = [items_dict EXCEPT ![id] = r.item]
          /\ ret' = r.raised
    /\ call' = [op |-> "reset", id |-> id]
    /\ UNCHANGED <<items_list, sync_lock>>
    /\ QueueFrame

\* item.update_stats(stats_dict), on an item of the list
QUpdateStats(id) ==
    /\ id \in DOMAIN items_dict
    /\ Len(items_dict[id].filenames) < MaxFiles
    /\ \E d \in QueueRecords :
          items_dict' = [items_dict EXCEPT ![id] = update_stats(@, d)]
    /\ ret' = None
    /\ call' = [op |-> "update_stats", id |-> id]
    /\ UNCHANGED <<items_list, sync_lock>>
    /\ QueueFrame

\* MainFrame._on_reload with the rows selected of the status list: every item
\* of get_items() when no row is selected, the items of the rows otherwise.
QOnReload(selected) ==
    /\ CanLock("gui")
    /\ selected \subseteq DOMAIN items_dict
    /\ IF selected = {} /\ ~(Range(items_list) \subseteq DOMAIN items_dict)
       THEN /\ ret' = "KeyError"
            /\ sync_lock' = "gui"
            /\ UNCHANGED items_dict
       ELSE /\ items_dict' =
                  [id \in DOMAIN items_dict |->
                      IF id \in selected
                         \/ (selected = {} /\ id \in Range(items_list))
                      THEN reload_item(items_dict[id])
                      ELSE items_dict[id]]
            /\ ret' = None
            /\ UNCHANGED sync_lock
    /\ call' = [op |-> "on_reload", id |-> NoId, selected |-> selected]
    /\ UNCHANGED items_list
    /\ QueueFrame

NextQueue ==
    \/ \E selected \in SUBSET Ids : QOnReload(selected)
    \/ \E id \in Ids : QInsert(id)
    \/ \E id \in Ids : QRemove(id)
    \/ QFetchNext
    \/ \E id \in Ids : QMoveUp(id)
    \/ \E id \in Ids : QMoveDown(id)
    \/ \E id \in Ids : \E new_stage \in Range(STAGES) : QChangeStage(id, new_stage)
    \/ QClear
    \/ \E id \in Ids : QReset(id)
    \/ \E id \in Ids : QUpdateStats(id)

SpecQueue == InitQueue /\ [][NextQueue]_vars

\* ---------------------------------------------------- DownloadManager thread

\* Worker.available
available(w) == w_data[w].url = None

\* _get_worker that gives the first Worker of the pool, available or not.
get_worker_first == CHOOSE w \in Pool : \A v \in Pool : w <= v

\* DownloadManager._get_worker: the first available Worker, or NoId.
get_worker ==
    IF \E w \in Pool : available(w)
    THEN CHOOSE w \in Pool : available(w) /\ \A v \in Pool : available(v) => w <= v
    ELSE NoId

\* _jobs_done() that is satisfied by one available Worker.
jobs_done_any == \E w \in Pool : available(w)

\* DownloadManager._jobs_done
jobs_done == \A w \in Pool : available(w)

\* run(): while self._running: item = fetch_next(); worker = _get_worker()
MLoop ==
    /\ m_pc = "loop"
    /\ IF ~m_running
       THEN /\ m_pc' = "close"
            /\ m_worker' = 1
            /\ loop_exit' = "stop"
            /\ UNCHANGED <<m_item, sync_lock>>
       ELSE /\ CanLock("manager")
            /\ LET item == fetch_next(items_list, items_dict)
               IN /\ m_item' = item
                  /\ m_worker' = IF item # NoId THEN get_worker ELSE NoId
                  /\ m_pc' = IF item = KeyErrorId THEN "crashed"
                             ELSE IF item = NoId THEN "jobs_done"
                             ELSE IF get_worker # NoId THEN "dl_url"
                             ELSE "loop"
                  /\ sync_lock' = IF item = KeyErrorId THEN "manager"
                                  ELSE sync_lock
            /\ UNCHANGED loop_exit
    /\ requeued' = IF m_running THEN {} ELSE requeued
    /\ UNCHANGED <<items_list, items_dict, call, ret, config_vars, lock_vars,
                   parser_vars, reply_vars, worker_vars, runner_vars,
                   m_running, m_successful, signals, closed_workers, gui_vars,
                   started, disturbed, ever_queued, harness_vars>>

\* Worker.download: self._data["url"] = url
MDownloadUrl ==
    /\ m_pc = "dl_url"
    /\ w_data' = [w_data EXCEPT ![m_worker].url = Url(m_item)]
    /\ started' = Append(started, m_item)
    /\ m_pc' = "dl_options"
    /\ UNCHANGED <<queue_vars, config_vars, lock_vars, parser_vars, reply_vars,
                   w_pc, w_running, w_options, w_successful, w_ret_code,
                   runner_vars, m_running, m_item, m_worker, m_successful,
                   signals, closed_workers, loop_exit, gui_vars, disturbed,
                   ever_queued, requeued, harness_vars>>

\* Worker.download: self._options = options
MDownloadOptions ==
    /\ m_pc = "dl_options"
    /\ w_options' = [w_options EXCEPT ![m_worker] = Options(m_item)]
    /\ m_pc' = "dl_index"
    /\ UNCHANGED <<queue_vars, config_vars, lock_vars, parser_vars, reply_vars,
                   w_pc, w_running, w_data, w_successful, w_ret_code,
                   runner_vars, m_running, m_item, m_worker, m_successful,
                   signals, closed_workers, loop_exit, gui_vars, history_vars,
                   harness_vars>>

\* Worker.download: self._data["index"] = object_id
MDownloadIndex ==
    /\ m_pc = "dl_index"
    /\ w_data' = [w_data EXCEPT ![m_worker].index = m_item]
    /\ m_pc' = "stage"
    /\ UNCHANGED <<queue_vars, config_vars, lock_vars, parser_vars, reply_vars,
                   w_pc, w_running, w_options, w_successful, w_ret_code,
                   runner_vars, m_running, m_item, m_worker, m_successful,
                   signals, closed_workers, loop_exit, gui_vars, history_vars,
                   harness_vars>>

\* run(): self.download_list.change_stage(item.object_id, "Active"); an
\* exception ends the thread inside the synchronized wrapper, which then
\* never releases the lock.
MChangeStage ==
    /\ m_pc = "stage"
    /\ CanLock("manager")
    /\ LET r == change_stage(items_dict, m_item, "Active")
       IN IF IsException(r.ret)
          THEN /\ m_pc' = "crashed"
               /\ sync_lock' = "manager"
               /\ UNCHANGED items_dict
          ELSE /\ m_pc' = "loop"
               /\ items_dict' = r.dict
               /\ UNCHANGED sync_lock
    /\ UNCHANGED <<items_list, call, ret, config_vars, lock_vars, parser_vars,
                   reply_vars, worker_vars, runner_vars, m_running, m_item,
                   m_worker, m_successful, signals, closed_workers, loop_exit,
                   gui_vars, history_vars, harness_vars>>

\* run(): if item is None and self._jobs_done(): break
MJobsDone ==
    /\ m_pc = "jobs_done"
    /\ IF jobs_done
       THEN /\ m_pc' = "close"
            /\ m_worker' = 1
            /\ loop_exit' = "break"
       ELSE /\ m_pc' = "loop"
            /\ UNCHANGED <<m_worker, loop_exit>>
    /\ UNCHANGED <<queue_vars, config_vars, lock_vars, parser_vars, reply_vars,
                   worker_vars, runner_vars, m_running, m_item, m_successful,
                   signals, closed_workers, gui_vars, history_vars,
                   harness_vars>>

\* run(): for worker in self._workers: worker.close() -> stop_download()
\* -> stop(), up to the kill
MCloseStop ==
    /\ m_pc = "close"
    /\ m_worker <= nworkers
    /\ IF proc[m_worker].obj /\ proc[m_worker].alive
       THEN /\ StopKill(m_worker)
            /\ m_pc' = "close_set"
       ELSE /\ m_pc' = "close_flag"
            /\ UNCHANGED <<proc, stderr_pipe, killed>>
    /\ UNCHANGED <<queue_vars, config_vars, lock_vars, parser_vars, reply_vars,
                   worker_vars, return_code, cmd, stderr_queue, d_code, d_cont,
                   d_data, last_hook, seen_max, m_running, m_item, m_worker,
                   m_successful, signals, closed_workers, loop_exit, gui_vars,
                   history_vars, harness_vars>>

\* stop(): self._set_returncode(self.STOPPED)
MCloseSet ==
    /\ m_pc = "close_set"
    /\ StopSetReturncode(m_worker)
    /\ m_pc' = "close_flag"
    /\ UNCHANGED <<queue_vars, config_vars, lock_vars, parser_vars, reply_vars,
                   worker_vars, cmd, stderr_pipe, stderr_queue, d_code, d_cont,
                   d_data, last_hook, killed, m_running, m_item, m_worker,
                   m_successful, signals, closed_workers, loop_exit, gui_vars,
                   history_vars, harness_vars>>

\* Worker.close: self._running = False; then
\* run(): self._successful += worker.successful
MCloseFlag ==
    /\ m_pc = "close_flag"
    /\ w_running' = [w_running EXCEPT ![m_worker] = FALSE]
    /\ closed_workers' = closed_workers \cup {m_worker}
    /\ m_successful' = m_successful + w_successful[m_worker]
    /\ m_worker' = m_worker + 1
    /\ m_pc' = "close"
    /\ UNCHANGED <<queue_vars, config_vars, lock_vars, parser_vars, reply_vars,
                   w_pc, w_data, w_options, w_successful, w_ret_code,
                   runner_vars, m_running, m_item, signals, loop_exit,
                   gui_vars, history_vars, harness_vars>>

\* run(): if not self._running: "closed" else: "finished"
MTalkToGui ==
    /\ m_pc = "close"
    /\ m_worker > nworkers
    /\ signals' = Append(signals, IF ~m_running THEN "closed" ELSE "finished")
    /\ m_pc' = "done"
    /\ UNCHANGED <<queue_vars, config_vars, lock_vars, parser_vars, reply_vars,
                   worker_vars, runner_vars, m_running, m_item, m_worker,
                   m_successful, closed_workers, loop_exit, gui_vars,
                   history_vars, harness_vars>>

ManagerStep ==
    \/ MLoop
    \/ MDownloadUrl
    \/ MDownloadOptions
    \/ MDownloadIndex
    \/ MChangeStage
    \/ MJobsDone
    \/ MCloseStop
    \/ MCloseSet
    \/ MCloseFlag
    \/ MTalkToGui

\* ------------------------------------------------- the consumer (MainFrame)
\* The handlers run on the one wx thread, one after the other.

\* The user may act: the wx thread is between handlers, a session is on.
UserCan ==
    /\ gui_pc = "idle"
    /\ gui_dm
    /\ user_ops < MaxUserOps
    /\ CanLock("gui")

\* _on_add, for one url: a new item, inserted unless has_item
UAdd(id) ==
    /\ UserCan
    /\ ~has_item(items_list, id)
    /\ LET it == [DownloadItem(id) EXCEPT !.path = SavePath]
           r == insert(items_list, items_dict, it)
       IN /\ items_list' = r.list
          /\ items_dict' = r.dict
    /\ user_ops' = user_ops + 1
    /\ ever_queued' = TRUE
    /\ requeued' = requeued \cup {id}
    /\ UNCHANGED <<sync_lock, call, ret, config_vars, lock_vars, parser_vars,
                   reply_vars, worker_vars, runner_vars, manager_vars,
                   gui_queue, gui_pc, gui_dm, started, disturbed,
                   harness_vars>>

\* _on_delete, for one selected row that is not Active
UDelete(id) ==
    /\ UserCan
    /\ has_item(items_list, id)
    /\ items_dict[id].stage # "Active"
    /\ LET r == remove(items_list, items_dict, id)
       IN /\ items_list' = r.list
          /\ items_dict' = r.dict
    /\ user_ops' = user_ops + 1
    /\ disturbed' = TRUE
    /\ UNCHANGED <<sync_lock, call, ret, config_vars, lock_vars, parser_vars,
                   reply_vars, worker_vars, runner_vars, manager_vars,
                   gui_queue, gui_pc, gui_dm, started, ever_queued, requeued,
                   harness_vars>>

\* _on_pause, for one selected row: a Queued item is paused, a Paused one
\* resumed
UPause(id) ==
    /\ UserCan
    /\ has_item(items_list, id)
    /\ items_dict[id].stage \in {"Queued", "Paused"}
    /\ LET new_state == IF items_dict[id].stage = "Paused" THEN "Queued"
                        ELSE "Paused"
       IN /\ items_dict' = change_stage(items_dict, id, new_state).dict
          /\ ever_queued' = IF new_state = "Queued" THEN TRUE ELSE ever_queued
          /\ requeued' = IF new_state = "Queued" THEN requeued \cup {id}
                         ELSE requeued
    /\ user_ops' = user_ops + 1
    /\ disturbed' = TRUE
    /\ UNCHANGED <<items_list, sync_lock, call, ret, config_vars, lock_vars,
                   parser_vars, reply_vars, worker_vars, runner_vars,
                   manager_vars, gui_queue, gui_pc, gui_dm, started,
                   harness_vars>>

\* _on_reload, for one selected row: reset() and the save path put back
UReload(id) ==
    /\ UserCan
    /\ has_item(items_list, id)
    /\ items_dict[id].stage \in {"Paused", "Completed", "Error"}
    /\ LET savepath == items_dict[id].path
           r == reset(items_dict[id])
       IN items_dict' = [items_dict EXCEPT
                            ![id] = [r.item EXCEPT !.path = savepath]]
    /\ user_ops' = user_ops + 1
    /\ disturbed' = TRUE
    /\ ever_queued' = TRUE
    /\ requeued' = requeued \cup {id}
    /\ UNCHANGED <<items_list, sync_lock, call, ret, config_vars, lock_vars,
                   parser_vars, reply_vars, worker_vars, runner_vars,
                   manager_vars, gui_queue, gui_pc, gui_dm, started,
                   harness_vars>>

\* _on_arrow_up, for one selected row below the first
UArrowUp(id) ==
    /\ UserCan
    /\ has_item(items_list, id)
    /\ ListIndex(items_list, id) > 0
    /\ items_list' = move_up(items_list, id).list
    /\ user_ops' = user_ops + 1
    /\ disturbed' = TRUE
    /\ UNCHANGED <<items_dict, sync_lock, call, ret, config_vars, lock_vars,
                   parser_vars, reply_vars, worker_vars, runner_vars,
                   manager_vars, gui_queue, gui_pc, gui_dm, started,
                   ever_queued, requeued, harness_vars>>

\* _on_arrow_down, for one selected row above the last
UArrowDown(id) ==
    /\ UserCan
    /\ has_item(items_list, id)
    /\ ListIndex(items_list, id) < Len(items_list) - 1
    /\ items_list' = move_down(items_list, id).list
    /\ user_ops' = user_ops + 1
    /\ disturbed' = TRUE
    /\ UNCHANGED <<items_dict, sync_lock, call, ret, config_vars, lock_vars,
                   parser_vars, reply_vars, worker_vars, runner_vars,
                   manager_vars, gui_queue, gui_pc, gui_dm, started,
                   ever_queued, requeued, harness_vars>>

\* _on_start with a Manager running -> stop_downloads():
\* self._talk_to_gui("closing")
UStopDownloads ==
    /\ gui_pc = "idle"
    /\ gui_dm
    /\ user_ops < MaxUserOps
    /\ signals' = Append(signals, "closing")
    /\ gui_pc' = "stopping"
    /\ user_ops' = user_ops + 1
    /\ UNCHANGED <<queue_vars, config_vars, lock_vars, parser_vars, reply_vars,
                   worker_vars, runner_vars, m_pc, m_running, m_item, m_worker,
                   m_successful, closed_workers, loop_exit, gui_queue, gui_dm,
                   history_vars, harness_vars>>

\* stop_downloads(): self._running = False
UStopFlag ==
    /\ gui_pc = "stopping"
    /\ m_running' = FALSE
    /\ gui_pc' = "idle"
    /\ UNCHANGED <<queue_vars, config_vars, lock_vars, parser_vars, reply_vars,
                   worker_vars, runner_vars, m_pc, m_item, m_worker,
                   m_successful, signals, closed_workers, loop_exit, gui_queue,
                   gui_dm, user_ops, history_vars, harness_vars>>

\* _download_manager_handler: "finished" or "closed"
GManagerHandler ==
    /\ gui_pc = "idle"
    /\ gui_dm
    /\ \E i \in 1..Len(signals) : signals[i] \in {"finished", "closed"}
    /\ gui_dm' = FALSE
    /\ UNCHANGED <<queue_vars, config_vars, lock_vars, parser_vars, reply_vars,
                   worker_vars, runner_vars, manager_vars, gui_queue, gui_pc,
                   user_ops, history_vars, harness_vars>>

\* _download_worker_handler, for the record at the head of the event queue.
\* get_item(None) fails its assertion inside the synchronized wrapper, which
\* then never releases the lock; an index that is not in the list fails the
\* handler's own assertion.
GWorkerHandler ==
    /\ gui_pc = "idle"
    /\ gui_queue # <<>>
    /\ CanLock("gui")
    /\ LET data == Head(gui_queue)
           index == data["index"]
       IN IF index = NoId
          THEN /\ sync_lock' = "gui"
               /\ UNCHANGED items_dict
          ELSE IF index \notin DOMAIN items_dict
          THEN UNCHANGED <<sync_lock, items_dict>>
          ELSE /\ items_dict' = [items_dict EXCEPT
                                    ![index] = update_stats(@, data)]
               /\ UNCHANGED sync_lock
    /\ gui_queue' = Tail(gui_queue)
    /\ UNCHANGED <<items_list, call, ret, config_vars, lock_vars, parser_vars,
                   reply_vars, worker_vars, runner_vars, manager_vars, gui_pc,
                   gui_dm, user_ops, history_vars, harness_vars>>

ConsumerStep ==
    \/ \E id \in Ids : UAdd(id)
    \/ \E id \in Ids : UDelete(id)
    \/ \E id \in Ids : UPause(id)
    \/ \E id \in Ids : UReload(id)
    \/ \E id \in Ids : UArrowUp(id)
    \/ \E id \in Ids : UArrowDown(id)
    \/ UStopDownloads
    \/ UStopFlag
    \/ GManagerHandler
    \/ GWorkerHandler

\* --------------------------------------------------------------------- Spec
\* One session: _start_download has built the DownloadManager on a list the
\* user has filled; no item is Active.

\* An item as a finished session, or the user, has left it.
ItemInStage(id, stage) ==
    LET it == [DownloadItem(id) EXCEPT !.path = SavePath]
    IN CASE stage = "Queued" -> it
         [] stage = "Paused" -> stage_setter(it, "Paused")
         [] stage = "Completed" -> update_stats(it, last_data(OK))
         [] stage = "Error" -> update_stats(it, last_data(ERROR))

InitStages == {"Queued", "Paused"}

Init ==
    /\ \E n \in 1..MaxJobs :
       \E stages \in [1..n -> InitStages] :
          /\ items_list = [i \in 1..n |-> i]
          /\ items_dict = [i \in 1..n |-> ItemInStage(i, stages[i])]
          /\ ever_queued = (\E i \in 1..n : stages[i] = "Queued")
    /\ sync_lock = "free"
    /\ InitIdleLock
    /\ InitIdleParser
    /\ call = NoCall
    /\ ret = None
    /\ nworkers \in 1..MaxWorkers
    /\ is_windows = FALSE
    /\ InitWorkers
    /\ InitManager
    /\ gui_queue = <<>>
    /\ gui_pc = "idle"
    /\ gui_dm = TRUE
    /\ user_ops = 0
    /\ started = <<>>
    /\ disturbed = FALSE
    /\ requeued = {}
    /\ h_runs = 0
    /\ s_pc = "idle"

\* A Worker outside the pool is never given a url and is never closed, so it
\* takes no step.
Next ==
    \/ ManagerStep
    \/ \E w \in AllWorkers : WorkerStep(w, SessionEnv)
    \/ ConsumerStep

Spec == Init /\ [][Next]_vars

\* ----------------------------------------------------------------- SpecLock
\* The synchronized wrapper step by step: two threads call operations of one
\* DownloadList; lock.acquire(), the body and lock.release() are steps of
\* their own, and a body that raises leaves the wrapper without the release.

MaxLockCount == 2

\* What every step of the wrapper leaves alone.
LockFrame ==
    UNCHANGED <<config_vars, parser_vars, reply_vars, worker_vars, runner_vars,
                manager_vars, gui_vars, history_vars, harness_vars>>

\* The operations the threads call.
LockOps == {"insert", "remove", "move_up", "change_stage"}

\* RLock.acquire: the lock is free or the caller owns it; the recursion
\* level goes up by one.
LAcquire(t, op, id) ==
    /\ t_pc[t] = "out"
    /\ CanLock(t)
    /\ lock_count < MaxLockCount
    /\ op = "insert" => Len(items_list) < MaxJobs
    /\ sync_lock' = t
    /\ lock_count' = lock_count + 1
    /\ t_pc' = [t_pc EXCEPT ![t] = "body"]
    /\ call' = [op |-> op, id |-> id]
    /\ UNCHANGED <<items_list, items_dict, ret>>
    /\ LockFrame

\* func(*args, **kwargs): the body of the operation; an exception leaves the
\* wrapper at once.
LBody(t) ==
    /\ t_pc[t] = "body"
    /\ LET r == CASE call.op = "insert" ->
                       insert(items_list, items_dict,
                              [DownloadItem(call.id) EXCEPT !.path = SavePath])
                  [] call.op = "remove" ->
                       remove(items_list, items_dict, call.id)
                  [] call.op = "move_up" ->
                       move_up(items_list, call.id) @@ [dict |-> items_dict]
                  [] call.op = "change_stage" ->
                       change_stage(items_dict, call.id, "Active")
                       @@ [list |-> items_list]
       IN /\ items_list' = r.list
          /\ items_dict' = r.dict
          /\ ret' = r.ret
          /\ t_pc' = [t_pc EXCEPT
                         ![t] = IF IsException(r.ret) THEN "out" ELSE "release"]
    /\ UNCHANGED <<sync_lock, lock_count, call>>
    /\ LockFrame

\* RLock.release: the recursion level goes down by one and the lock is free
\* at zero.
LRelease(t) ==
    /\ t_pc[t] = "release"
    /\ lock_count' = lock_count - 1
    /\ sync_lock' = IF lock_count = 1 THEN "free" ELSE sync_lock
    /\ t_pc' = [t_pc EXCEPT ![t] = "out"]
    /\ UNCHANGED <<items_list, items_dict, call, ret>>
    /\ LockFrame

NextLock ==
    \/ \E t \in Threads : \E op \in LockOps : \E id \in Ids :
          LAcquire(t, op, id)
    \/ \E t \in Threads : LBody(t)
    \/ \E t \in Threads : LRelease(t)

SpecLock == InitQueue /\ [][NextLock]_vars

\* ------------------------------------------------------- claims on SpecQueue

\* C2: remove(object_id) on an Active item returns False and leaves the order
\* list and the map as they were; on an item in any other stage it returns
\* True, and takes that identity out of the map and its (first) entry out of
\* the order list, every other item staying as it was.
C2_RemoveActive ==
    [][(call'.op = "remove" /\ call'.id \in DOMAIN items_dict) =>
          IF items_dict[call'.id].stage = "Active"
          THEN /\ ret' = "False"
               /\ items_list' = items_list
               /\ items_dict' = items_dict
          ELSE /\ ret' = "True"
               /\ items_list' = ListRemove(items_list, call'.id)
               /\ DOMAIN items_dict' = (DOMAIN items_dict) \ {call'.id}
               /\ \A k \in DOMAIN items_dict' : items_dict'[k] = items_dict[k]
      ]_vars

\* remove() has just refused an Active item that the list still holds.
C2_Witness ==
    /\ call.op = "remove"
    /\ ret = "False"
    /\ call.id \in DOMAIN items_dict
    /\ items_dict[call.id].stage = "Active"
    /\ Len(items_list) > 1

\* C3: reset() on an Active item raises RuntimeError and leaves every field of
\* the item, and the rest of the queue, as they were.
C3_ResetActive ==
    [][(/\ call'.op = "reset"
        /\ call'.id \in DOMAIN items_dict
        /\ items_dict[call'.id].stage = "Active") =>
          /\ ret' = "RuntimeError"
          /\ items_dict' = items_dict
          /\ items_list' = items_list
      ]_vars

\* reset() has just raised on an Active item that carries a path and a file.
C3_Witness ==
    /\ call.op = "reset"
    /\ ret = "RuntimeError"
    /\ call.id \in DOMAIN items_dict
    /\ items_dict[call.id].stage = "Active"
    /\ items_dict[call.id].path # ""
    /\ items_dict[call.id].filenames # <<>>

\* ------------------------------------------------------------ claims on Spec

\* stop_downloads() has been called on the Manager.
StopRequested == \E i \in 1..Len(signals) : signals[i] = "closing"

\* The Manager has emitted the signal.
Emitted(signal) == \E i \in 1..Len(signals) : signals[i] = signal

\* The zero based position of the item in the order list.
Position(id) == ListIndex(items_list, id)

\* C1: with a pool of one Worker and no reordering, pause, reload or removal,
\* the jobs are started in the order of the list: a job started later stands
\* later in the list, and no job that stands before a started job is still
\* waiting to be started.
C1_FifoDispatch ==
    (nworkers = 1 /\ ~disturbed) =>
       /\ \A i, j \in 1..Len(started) :
             i < j => Position(started[i]) < Position(started[j])
       /\ \A i \in 1..Len(started) : \A k \in 1..Len(items_list) :
             (k - 1 < Position(started[i])
              /\ items_dict[items_list[k]].stage = "Queued")
                => items_list[k] \in Range(started)

\* A pool of one Worker has been given both jobs of an undisturbed list.
C1_Witness ==
    /\ nworkers = 1
    /\ ~disturbed
    /\ Len(started) = MaxJobs

\* C6: when no item has been Queued since the Manager started and no stop is
\* requested, the Manager assigns no job, is never held up, and ends having
\* emitted "finished" and nothing else.
C6_NoQueuedFinishes ==
    (~ever_queued /\ ~StopRequested) =>
       /\ started = <<>>
       /\ \A w \in Pool : available(w)
       /\ m_pc # "crashed"
       /\ (m_pc # "done" => ENABLED ManagerStep)
       /\ (m_pc = "done" => signals = <<"finished">>)

\* The Manager has ended on a list that holds items, none of them ever
\* Queued, without a stop.
C6_Witness ==
    /\ ~ever_queued
    /\ ~StopRequested
    /\ m_pc = "done"
    /\ items_list # <<>>
    /\ signals = <<"finished">>

\* The Manager leaves its loop by the break.
NaturalExit == m_pc = "jobs_done" /\ m_pc' = "close"

\* C7 as stated: when the Manager leaves its loop by the break, no item is
\* Queued and every Worker is available.
C7_NoQueuedAtExit ==
    [][NaturalExit =>
          /\ \A id \in DOMAIN items_dict' : items_dict'[id].stage # "Queued"
          /\ \A w \in Pool : available(w)'
      ]_vars

\* C7, amended: when the Manager leaves its loop by the break, its last
\* fetch_next found no Queued item and every Worker is available; an item
\* that is Queued at that moment was made Queued by the consumer after that
\* fetch_next.
C7_NoQueuedAtFetch ==
    [][NaturalExit =>
          /\ m_item = NoId
          /\ \A id \in DOMAIN items_dict' :
                items_dict'[id].stage = "Queued" => id \in requeued'
          /\ \A w \in Pool : available(w)' /\ w_pc'[w] = "poll"
      ]_vars

\* The Manager has just left its loop by the break although an item is
\* Queued.
C7_Witness ==
    /\ m_pc = "close"
    /\ m_worker = 1
    /\ closed_workers = {}
    /\ loop_exit = "break"
    /\ \E id \in DOMAIN items_dict : items_dict[id].stage = "Queued"

\* C8: "closing" and "finished" are never both emitted, nor "finished" and
\* "closed", and a Manager that has ended has emitted exactly one of "closed"
\* and "finished".
C8_ExclusiveOutcomes ==
    /\ ~(Emitted("closing") /\ Emitted("finished"))
    /\ ~(Emitted("closed") /\ Emitted("finished"))
    /\ (m_pc = "done" => (Emitted("closed") \/ Emitted("finished")))

\* C9: "closing" is emitted while no Worker has been shut down; "closed" is
\* emitted after "closing" and after every Worker of the pool has been shut
\* down.
C9_ClosingBeforeShutdown ==
    [][/\ (~Emitted("closing") /\ Emitted("closing")') => closed_workers = {}
       /\ (~Emitted("closed") /\ Emitted("closed")') =>
             (Emitted("closing") /\ closed_workers = Pool)
      ]_vars

\* C10: once "closed" or "finished" is emitted, every Worker thread of the
\* pool has left its run loop and no subprocess of a Worker is alive.
C10_StopAndJoin ==
    (Emitted("closed") \/ Emitted("finished")) =>
       \A w \in Pool : w_pc[w] = "exited" /\ ~(proc[w].obj /\ proc[w].alive)

\* ------------------------------------------- further claims on SpecQueue

\* The order list holds no identity twice and holds exactly the identities
\* of the map.
WellFormed ==
    /\ \A i, j \in 1..Len(items_list) :
          items_list[i] = items_list[j] => i = j
    /\ Range(items_list) = DOMAIN items_dict

\* The step is an insert of an identity the order list already holds.
UnguardedInsert == call'.op = "insert" /\ call'.id \in Range(items_list)

\* C14: move_up on the first item and move_down on the last item return False
\* and leave the order as it was; anywhere else they return True and the item
\* changes places with its neighbour, every other position and the map
\* staying as they were.
C14_MoveBoundaries ==
    [][(call'.op \in {"move_up", "move_down"}
        /\ call'.id \in Range(items_list)) =>
          LET i == ListIndex(items_list, call'.id) + 1
              j == IF call'.op = "move_up" THEN i - 1 ELSE i + 1
          IN /\ items_dict' = items_dict
             /\ IF j < 1 \/ j > Len(items_list)
                THEN /\ ret' = "False"
                     /\ items_list' = items_list
                ELSE /\ ret' = "True"
                     /\ Len(items_list') = Len(items_list)
                     /\ items_list'[j] = items_list[i]
                     /\ items_list'[i] = items_list[j]
                     /\ \A k \in 1..Len(items_list) :
                           k \notin {i, j} => items_list'[k] = items_list[k]
      ]_vars

\* move_down has just been refused for the last item of a list of several.
C14_Witness ==
    /\ call.op = "move_down"
    /\ ret = "False"
    /\ Len(items_list) > 1
    /\ items_list[Len(items_list)] = call.id
    /\ WellFormed

\* C15: the identity of an item is fixed by its url and its options, and
\* every operation other than an insert of an identity the list already holds
\* keeps the order list free of duplicates and equal, as a set, to the
\* identities of the map (the empty queue is so).
C15_NoDuplicates ==
    /\ \A i, j \in Ids :
          (Url(i) = Url(j) /\ Options(i) = Options(j))
             => DownloadItem(i).object_id = DownloadItem(j).object_id
    /\ [][(WellFormed /\ ~UnguardedInsert) => WellFormed']_vars

\* An item has just been removed from a list of several, built by guarded
\* inserts.
C15_Witness ==
    /\ call.op = "remove"
    /\ ret = "True"
    /\ WellFormed
    /\ Len(items_list) = MaxJobs - 1
    /\ Len(items_list) > 0

\* C16: remove, move_up and move_down called with an identity the queue does
\* not hold return False, raise nothing and leave the queue as it was.
C16_BooleanFailures ==
    [][(/\ call'.op \in {"remove", "move_up", "move_down"}
        /\ call'.id \notin Range(items_list)
        /\ call'.id \notin DOMAIN items_dict) =>
          /\ ret' = "False"
          /\ items_list' = items_list
          /\ items_dict' = items_dict
          /\ sync_lock' = sync_lock
      ]_vars

\* C18: no step of the queue takes an Active item out of the map or out of
\* the order list.
C18_ActiveNeverRemoved ==
    [][\A id \in DOMAIN items_dict :
          (items_dict[id].stage = "Active" /\ id \in Range(items_list)) =>
             (id \in DOMAIN items_dict' /\ id \in Range(items_list'))
      ]_vars

\* ------------------------------------------------ further claims on Spec

\* The number of download() runs of the pool that Worker.run has counted as
\* successful (outcome OK, ALREADY or WARNING).
SuccessfulRuns ==
    LET sum[n \in 0..MaxWorkers] ==
            IF n = 0 THEN 0 ELSE sum[n - 1] + w_successful[n]
    IN sum[nworkers]

\* The session has ended: the Manager has emitted its last signal and every
\* Worker thread of the pool has left its run loop.
SessionEnded == m_pc = "done" /\ \A w \in Pool : w_pc[w] = "exited"

\* C11: once the session has ended, the total of the Manager equals the
\* number of runs of its Workers that ended OK, WARNING or ALREADY.
C11_SuccessCount == SessionEnded => m_successful = SuccessfulRuns

\* C12: outside a call of Worker.download on it, a Worker is available
\* exactly when it holds no job identity: not available once the call has
\* returned, until Worker.run has cleared the data of the job.
C12_SingleAssignment ==
    \A w \in Pool :
       ~(m_pc \in {"dl_options", "dl_index"} /\ m_worker = w) =>
          (available(w) <=> w_data[w].index = NoId)

\* C19: an item whose stage is Completed or Error does not become Active in
\* one step (it has to be made Queued first).
C19_MonotonicStages ==
    [][\A id \in DOMAIN items_dict :
          (items_dict[id].stage \in {"Completed", "Error"}
           /\ id \in DOMAIN items_dict')
             => items_dict'[id].stage # "Active"
      ]_vars

\* C20: the Manager thread is never ended by an exception.
C20_NoException == m_pc # "crashed"

\* ------------------------------------------------------- SpecRunnerLive
\* SpecRunner with a scheduler that does not starve the Worker thread, and
\* with subprocesses that terminate.

SpecRunnerLive ==
    /\ SpecRunner
    /\ WF_vars(WorkerStep(1, RunnerEnv))
    /\ SF_vars(WProcessExit(1, RunnerEnv))

InOperation(t) == t_pc[t] \in {"body", "release"}

\* C17: at most one thread is inside an operation of the DownloadList, that
\* thread owns the lock, and a thread that owns the lock and is outside
\* every operation can enter one (its acquire is enabled).
C17_Serialized ==
    /\ \A t, u \in Threads : (InOperation(t) /\ InOperation(u)) => t = u
    /\ \A t \in Threads : InOperation(t) => (sync_lock = t /\ lock_count > 0)
    /\ \A t \in Threads :
          (sync_lock = t /\ t_pc[t] = "out" /\ lock_count < MaxLockCount) =>
             ENABLED (\E id \in Ids : LAcquire(t, "remove", id))

\* A thread that kept the lock when an operation raised is inside another
\* operation, at recursion level two, and the other thread is outside.
C17_Witness ==
    \E t \in Threads :
       /\ t_pc[t] = "body"
       /\ sync_lock = t
       /\ lock_count = 2
       /\ \A u \in Threads \ {t} : t_pc[u] = "out"

\* --------------------------------------------------------------- SpecParser
\* extract_data called once on a line: every line of at most MaxTokens
\* tokens of the vocabulary, every beginning of the longer lines youtube-dl
\* writes, and the "[hlsnative]" lines of seven tokens.

MaxTokens == 3

Vocabulary ==
    {" ", "[download]", "[hlsnative]", "[ffmpeg]", "[debug]", "[youtube]",
     "x", "100%", "45.0%", "downloaded", "merged", "Aborting.",
     "Destination:"}

Line100 == <<"[download]", "100%", "of", "10.00MiB">>

LineMerged == LineAlready \o <<"and", "merged">>

LinePlaylist == <<"[download]", "Downloading", "video", "1", "of", "5">>

LineMerging ==
    <<"[ffmpeg]", "Merging", "formats", "into", "dl/a.mp4">>

LongLines ==
    {LineDownloading, LineAlready, LineAbort, LinePreProcessing, Line100,
     LineMerged, LinePlaylist, LineMerging}

HlsLines ==
    {<<"[hlsnative]", "Downloading", "segment", "no", current, "of", total>> :
        current \in {"2", "x"}, total \in {"4", "0", "x"}}

ShortLines == UNION {[1..n -> Vocabulary] : n \in 0..MaxTokens}

ParserLines ==
    ShortLines \cup HlsLines
    \cup UNION {{SubSeq(line, 1, n) : n \in 1..Len(line)} :
                   line \in LongLines}

InitParser ==
    /\ InitIdleQueue
    /\ InitIdleGui
    /\ InitWorkers
    /\ InitManager
    /\ nworkers = 1
    /\ is_windows = FALSE
    /\ h_runs = 0
    /\ s_pc = "idle"
    /\ p_stdout \in ParserLines
    /\ p_data = NotCalled

\* data_dictionary = extract_data(stdout)
ExtractData ==
    /\ p_data = NotCalled
    /\ p_data' = extract_data(p_stdout)
    /\ UNCHANGED <<queue_vars, config_vars, lock_vars, p_stdout, reply_vars,
                   worker_vars, runner_vars, manager_vars, gui_vars,
                   history_vars, harness_vars>>

NextParser == ExtractData

SpecParser == InitParser /\ [][NextParser]_vars

\* extract_data has been called on the line.
Called == p_data # NotCalled

\* The tokens of the line, its first and its last token.
Tokens == split(p_stdout)

\* The value of a key of the record, None when the key is absent (or when
\* there is no record).
Field(key) == IF Has(p_data, key) THEN p_data[key] ELSE None

\* C21: extract_data returns a record for every line: it raises nothing.
C21_NeverThrows == Called => ~Raised(p_data)

\* C22: the first token of the line selects the status of the record.
C22_TagDispatch ==
    (Called /\ Tokens # <<>>) =>
       LET first == Tokens[1]
           last == Tokens[Len(Tokens)]
       IN IF first = "[download]"
          THEN Field("status") =
                  IF last = "downloaded" THEN "Already Downloaded"
                  ELSE IF last = "Aborting." THEN "Filesize Abort"
                  ELSE "Downloading"
          ELSE IF first = "[hlsnative]" THEN Field("status") = "Downloading"
          ELSE IF first = "[ffmpeg]" THEN Field("status") = "Post Processing"
          ELSE IF first \in BracketTokens \ {"[debug]"}
          THEN Field("status") = "Pre Processing"
          ELSE p_data = <<>>

\* The line ends in "downloaded", one token, "merged".
EndsMerged ==
    /\ Len(Tokens) >= 3
    /\ Tokens[Len(Tokens) - 2] = "downloaded"
    /\ Tokens[Len(Tokens)] = "merged"

\* The token of the line at the Python index i, None when the line is too
\* short to have it.
Token(i) == IF InRange(Tokens, i) THEN At(Tokens, i) ELSE None

\* C23: the record of a "[download]" line whose second token has a "%": for
\* "100%" the percent "100%", the filesize of token 3 and empty speed and
\* eta; otherwise the tokens 1, 3, 5 and 7; and a line ending in
\* "downloaded ... merged" has the percent "100%".
C23_ProgressLine ==
    (Called /\ Len(Tokens) >= 2 /\ Tokens[1] = "[download]") =>
       /\ (Tokens[2] = "100%") =>
             /\ Field("percent") = "100%"
             /\ Field("filesize") = Token(3)
             /\ Field("speed") = ""
             /\ Field("eta") = ""
       /\ (Tokens[2] \in PercentTokens \ {"100%"} /\ ~EndsMerged) =>
             /\ Field("percent") = Token(1)
             /\ Field("filesize") = Token(3)
             /\ Field("speed") = Token(5)
             /\ Field("eta") = Token(7)
       /\ EndsMerged => Field("percent") = "100%"

\* ------------------------------------------ further claims on SpecRunner

\* The step is download() handing the record of a line of stdout to the hook.
LineForwarded ==
    /\ w_pc[1] \in {"dl_loop", "hook"}
    /\ last_hook'[1] # last_hook[1]

\* The statuses that only the last record of a run may carry.
TerminalSummaries == {"Already Downloaded", "Filesize Abort"}

\* C24: the record of a line is never forwarded with the status "Already
\* Downloaded" or "Filesize Abort": _extract_info gives such a line the code
\* ALREADY or FILESIZE_ABORT and the status None, and when the record is
\* forwarded the code of the run is at least that code.
C24_TerminalSummaries ==
    /\ \A line \in RunnerEnv.lines :
          LET data == extract_data(line)
          IN (Has(data, "status") /\ data["status"] \in TerminalSummaries) =>
                /\ extract_info_code(data) =
                      IF data["status"] = "Already Downloaded" THEN ALREADY
                      ELSE FILESIZE_ABORT
                /\ extract_info_data(data)["status"] = None
    /\ [][LineForwarded =>
            LET data == last_hook'[1]
            IN /\ Has(data, "status") => data["status"] \notin TerminalSummaries
               /\ w_pc[1] = "hook" =>
                     /\ data["status"] = None
                     /\ return_code'[1] >=
                           IF Has(data, "filename") THEN ALREADY
                           ELSE FILESIZE_ABORT
       ]_vars

\* The record of an "already downloaded" line has been forwarded, without its
\* status, in a run whose code is ALREADY.
C24_Witness ==
    /\ w_pc[1] = "dl_loop"
    /\ Has(last_hook[1], "filename")
    /\ last_hook[1]["status"] = None
    /\ return_code[1] = ALREADY

\* C25: the record handed to the hook last, when download() returns, is the
\* record _last_data_hook builds for the code download() returns.
C25_FinalRecord ==
    [][(w_pc[1] = "dl_ret" /\ w_pc'[1] = "poll")
          => last_hook[1] = last_data(w_ret_code'[1])]_vars

\* C26: when download() returns, a WARNING or ERROR line that the subprocess
\* wrote to stderr and that download() has not read can only be left if the
\* code returned is already at least WARNING.
C26_StderrSameRun ==
    [][(w_pc[1] = "dl_ret" /\ w_pc'[1] = "poll") =>
          \/ w_ret_code'[1] >= WARNING
          \/ \A k \in 1..Len(stderr_pipe[1] \o stderr_queue[1]) :
                ~is_warning((stderr_pipe[1] \o stderr_queue[1])[k])
      ]_vars

\* C27: a run that stop() has not killed and whose subprocess has ended with
\* an exit code other than zero returns at least ERROR.
C27_NonZeroExit ==
    [][(/\ w_pc[1] = "dl_ret" /\ w_pc'[1] = "poll"
        /\ ~killed[1]
        /\ proc[1].obj /\ proc[1].returncode # 0)
          => w_ret_code'[1] >= ERROR]_vars

\* ---------------------------------------- claims on Spec: Worker shutdown

\* C28: a Worker whose close() has returned creates no subprocess.
C28_NoSpawnAfterClose ==
    [][\A w \in Pool :
          w \in closed_workers =>
             ~(w_pc[w] = "dl_start" /\ w_pc'[w] = "dl_loop"
               /\ proc'[w].obj /\ proc'[w].alive)
      ]_vars

\* C29: every record posted to the consumer carries the identity of a job.
C29_TaggedRecords ==
    \A i \in 1..Len(gui_queue) : gui_queue[i]["index"] # NoId

\* ---------------------------------------------------------------- SpecReply
\* The Workers, their receive requests and the updates the consumer sends.

\* dict.update(data), on the keys the Worker's _data has here.
dict_update(dict, data) ==
    [key \in DOMAIN dict |->
        IF key \in DOMAIN data THEN data[key] ELSE dict[key]]

\* update_data that does not test the flag.
update_data_always(dict, wait_for_reply, data) ==
    [data |-> dict_update(dict, data), wait_for_reply |-> FALSE]

\* Worker.update_data: _data and _wait_for_reply afterwards.
update_data(dict, wait_for_reply, data) ==
    IF wait_for_reply
    THEN [data |-> dict_update(dict, data), wait_for_reply |-> FALSE]
    ELSE [data |-> dict, wait_for_reply |-> wait_for_reply]

\* The updates the consumer may send: a url, an index, or both.
Updates ==
    {[url |-> Url(id)] : id \in Ids} \cup {[index |-> id] : id \in Ids}
        \cup {[url |-> Url(id), index |-> other] : id \in Ids, other \in Ids}

\* Worker._talk_to_gui("receive", data): the flag is set (no wx application
\* is there to post the request to).
TalkToGuiReceive(w) ==
    /\ w_wait_for_reply' = [w_wait_for_reply EXCEPT ![w] = TRUE]
    /\ call' = [op |-> "receive", id |-> w_data[w]["index"]]
    /\ UNCHANGED <<items_list, items_dict, sync_lock, ret, config_vars,
                   lock_vars, parser_vars, worker_vars, runner_vars,
                   manager_vars, gui_vars, history_vars, harness_vars>>

\* worker.update_data(data)
UpdateData(w, data) ==
    /\ LET r == update_data(w_data[w], w_wait_for_reply[w], data)
       IN /\ w_data' = [w_data EXCEPT ![w] = r.data]
          /\ w_wait_for_reply' =
                [w_wait_for_reply EXCEPT ![w] = r.wait_for_reply]
    /\ call' = [op |-> "update_data", data |-> data, worker |-> w]
    /\ UNCHANGED <<items_list, items_dict, sync_lock, ret, config_vars,
                   lock_vars, parser_vars, w_pc, w_running, w_options,
                   w_successful, w_ret_code, runner_vars, manager_vars,
                   gui_vars, history_vars, harness_vars>>

\* has_index that is true of every Worker.
has_index_any(w, index) == TRUE

\* Worker.has_index
has_index(w, index) == w_data[w]["index"] = index

\* DownloadManager.send_to_worker(data): update_data on every Worker that
\* has the index of the data.
SendToWorker(data) ==
    /\ LET addressed(w) ==
               /\ "index" \in DOMAIN data
               /\ has_index(w, data["index"])
           r(w) == update_data(w_data[w], w_wait_for_reply[w], data)
       IN /\ w_data' =
                [w \in AllWorkers |->
                    IF addressed(w) THEN r(w).data ELSE w_data[w]]
          /\ w_wait_for_reply' =
                [w \in AllWorkers |->
                    IF addressed(w) THEN r(w).wait_for_reply
                    ELSE w_wait_for_reply[w]]
    /\ call' = [op |-> "send_to_worker", data |-> data]
    /\ UNCHANGED <<items_list, items_dict, sync_lock, ret, config_vars,
                   lock_vars, parser_vars, w_pc, w_running, w_options,
                   w_successful, w_ret_code, runner_vars, manager_vars,
                   gui_vars, history_vars, harness_vars>>

NextReply ==
    \/ \E w \in AllWorkers : TalkToGuiReceive(w)
    \/ \E w \in AllWorkers : \E data \in Updates : UpdateData(w, data)
    \/ \E data \in Updates : SendToWorker(data)

SpecReply == InitQueue /\ [][NextReply]_vars

\* C30: update_data changes the data of the Worker only while the flag is
\* set, and clears the flag when it does; while the flag is clear it changes
\* nothing.
C30_ReplyGating ==
    [][/\ \A w \in AllWorkers :
              ~w_wait_for_reply[w] => w_data'[w] = w_data[w]
       /\ call'.op = "update_data" =>
              LET w == call'.worker
              IN IF w_wait_for_reply[w]
                 THEN /\ w_data'[w] = dict_update(w_data[w], call'.data)
                      /\ ~w_wait_for_reply'[w]
                 ELSE /\ w_data' = w_data
                      /\ w_wait_for_reply' = w_wait_for_reply
      ]_vars

\* The Worker has taken one update, and a second update that would have
\* changed its data has been left out.
C30_Witness ==
    /\ call.op = "update_data"
    /\ ~w_wait_for_reply[1]
    /\ w_data[1] # [url |-> None, index |-> NoId]
    /\ dict_update(w_data[1], call.data) # w_data[1]

\* The Worker is as it was before the step.
WorkerUntouched(w) ==
    /\ w_data'[w] = w_data[w]
    /\ w_wait_for_reply'[w] = w_wait_for_reply[w]

\* C31: send_to_worker hands the data to the Workers whose index is the
\* index of the data, and to no other; data with no index goes to nobody.
C31_Routing ==
    [][call'.op = "send_to_worker" =>
          LET data == call'.data
          IN \A w \in AllWorkers :
                IF "index" \in DOMAIN data
                   /\ w_data[w]["index"] = data["index"]
                THEN LET r == update_data(w_data[w], w_wait_for_reply[w],
                                          data)
                     IN /\ w_data'[w] = r.data
                        /\ w_wait_for_reply'[w] = r.wait_for_reply
                ELSE WorkerUntouched(w)
      ]_vars

\* send_to_worker has come back; a Worker with the index of the data has them,
\* and a Worker with another index that waits for a reply does not.
C31_Witness ==
    /\ call.op = "send_to_worker"
    /\ DOMAIN call.data = {"url", "index"}
    /\ \E w \in AllWorkers :
          /\ w_data[w] = call.data
          /\ ~w_wait_for_reply[w]
    /\ \E w \in AllWorkers :
          /\ w_wait_for_reply[w]
          /\ w_data[w]["index"] \in Ids \ {call.data["index"]}
          /\ w_data[w]["url"] # call.data["url"]

\* ------------------------------------------- further claims on SpecQueue

\* The items _on_reload has gone through in the step.
Reloaded ==
    IF call'.selected = {} THEN Range(items_list) ELSE call'.selected

FetchStep ==
    /\ m_pc = "loop"
    /\ m_running
    /\ <<m_pc, m_item, m_worker>>' # <<m_pc, m_item, m_worker>>

NoIdleWorker == \A w \in Pool : ~available(w)

\* C33: fetch_next changes nothing in the list; an item fetched while no
\* Worker is available is given to no Worker and stays Queued, and the next
\* fetch_next gives it again; Worker.download is begun once in an iteration
\* of the loop at most.
C33_FetchOnly ==
    [][/\ FetchStep => UNCHANGED <<items_list, items_dict>>
       /\ (FetchStep /\ m_item' \in Ids /\ NoIdleWorker) =>
             /\ m_pc' = "loop"
             /\ started' = started
             /\ w_data' = w_data
             /\ items_dict'[m_item'].stage = "Queued"
             /\ fetch_next(items_list', items_dict') = m_item'
       /\ started' # started =>
             /\ m_pc = "dl_url"
             /\ m_pc' # "dl_url"
             /\ Len(started') = Len(started) + 1
       /\ (m_pc' = "dl_url" /\ m_pc # "dl_url") => m_pc = "loop"
      ]_vars

\* The Manager has fetched an item and found no Worker for it; the item is
\* Queued and the Manager is at the head of its loop again.
C33_Witness ==
    /\ m_pc = "loop"
    /\ m_running
    /\ m_item \in DOMAIN items_dict
    /\ m_worker = NoId
    /\ NoIdleWorker
    /\ items_dict[m_item].stage = "Queued"
    /\ fetch_next(items_list, items_dict) = m_item

\* The statuses of a stage: the sub stages of Active, Completed and Error.
StatusesOf(stage) ==
    CASE stage = "Active" -> Range(ACTIVE_STAGES)
      [] stage = "Completed" -> Range(COMPLETED_STAGES)
      [] stage = "Error" -> Range(ERROR_STAGES)

\* C34: the status of an item that is Active, Completed or Error is one of
\* the sub stages of its stage.
C34_StatusOfStage ==
    \A id \in DOMAIN items_dict :
       items_dict[id].stage \in {"Active", "Completed", "Error"} =>
          items_dict[id].progress_stats.status
             \in StatusesOf(items_dict[id].stage)

\* ------------------------------------------------- further claims on SpecLock

\* C35: a thread that is outside every synchronized operation does not hold
\* the lock, whether its last operation returned or raised.
C35_LockReleased ==
    \A t \in Threads : t_pc[t] = "out" => sync_lock # t

\* C36: once the Manager and the Workers have ended and every record posted
\* has been applied, no item is left Active: each item made Active has gone
\* on to Completed or Error.
C36_ActiveEnds ==
    (SessionEnded /\ gui_queue = <<>>) =>
       \A id \in DOMAIN items_dict : items_dict[id].stage # "Active"

\* C37: the item a Worker has been given, and has not yet put down, is an
\* item of the list.
C37_AssignedStaysListed ==
    \A w \in Pool :
       ~available(w) =>
          \E id \in DOMAIN items_dict :
             /\ id \in Range(items_list)
             /\ items_dict[id].url = w_data[w].url

\* C38: the item the Manager gives to a Worker, and the item it makes Active,
\* is Queued at that moment.
C38_PausedNotDispatched ==
    [][/\ (started' # started /\ m_item \in DOMAIN items_dict) =>
             items_dict[m_item].stage = "Queued"
       /\ (m_pc = "stage" /\ m_pc' = "loop"
           /\ m_item \in DOMAIN items_dict) =>
             items_dict[m_item].stage = "Queued"
      ]_vars

\* C39: the url and the options a Worker has called download() with are
\* those of one item.
C39_AtomicAssignment ==
    \A w \in Pool :
       InRun(w) =>
          \E id \in Ids :
             /\ cmd[w].url = Url(id)
             /\ cmd[w].options = Options(id)

\* ------------------------------------------ claims on SpecRunner: the spawn

\* C40: a download() whose subprocess was never created (self._proc is still
\* None when it returns) does not return OK, and its last record is not
\* "Finished".
C40_SpawnFailureNotOK ==
    \A w \in AllWorkers :
       (w_pc[w] = "dl_ret" /\ ~proc[w].obj) =>
          /\ return_code[w] # OK
          /\ last_hook[w]["status"] # "Finished"

====
